---- MODULE Spec2Model ----
(***************************************************************************)
(* A model of the x64 lowering rules of cranelift-codegen                  *)
(* (cranelift/codegen/src/isa/x64/lower.rs): the operand resolver, the      *)
(* comparison emitters and the branch-group lowering, together with a small *)
(* x64 machine that executes the emitted instructions.                      *)
(*                                                                          *)
(* Values are scaled: a 64-bit machine word is WordBits wide, a 32-bit      *)
(* quantity HalfBits and a byte ByteBits.  IR types keep their real bit     *)
(* counts (ty_bits), so every width test of the code is the code's own.     *)
(***************************************************************************)
EXTENDS Integers, Naturals, Sequences, FiniteSets, TLC

VARIABLES ir, insts, next_vreg, sunk, ret, regs, flags, mpc, label, phase,
          memory, list, cur, stored

\* The state of the component-model side: the length of the linear memory,
\* the list at hand, the cursor of lower_list and the stores of an element.
component_vars == <<memory, list, cur, stored>>

\* The state of the machine the lowered code runs on.
machine_vars == <<insts, next_vreg, sunk, regs, flags, mpc, label>>

vars == <<ir, insts, next_vreg, sunk, ret, regs, flags, mpc, label, phase, component_vars>>

-----------------------------------------------------------------------------
(* Bounds of the model.                                                    *)

WordBits == 4

HalfBits == 3

ByteBits == 2

\* Virtual registers of the machine that executes the emitted code.
RegFileSize == 24

\* Registers holding the values of the IR inputs; temporaries come after.
NumValueRegs == 10

\* Number of resolutions of one input within one lowering.
MaxUses == 3

\* Largest number of jump-table entries of a br_table.
MaxTable == 4

Pow2(n) == 2 ^ n

WordMod == Pow2(WordBits)

AllOnes == WordMod - 1

Words == 0 .. AllOnes

\* Boundary values of one half of a 128-bit integer: 0, 1, the largest
\* positive word, the smallest negative word and -1.
HalfVals == {0, 1, Pow2(WordBits - 1) - 1, Pow2(WordBits - 1), AllOnes}

\* Contents a freshly allocated temporary may hold before it is written.
JunkVals == {0, AllOnes}

None == 0 - 1

\* The value standing for a Rust panic where a number is expected.
Panic == 0 - 2

-----------------------------------------------------------------------------
(* IR types.                                                               *)

IntTypes == {"I8", "I16", "I32", "I64", "I128"}

VecTypes == {"I8X16", "F32X4", "I32X4", "F64X2"}

ty_bits(ty) ==
  CASE ty = "B1" -> 1
    [] ty \in {"I8", "B8"} -> 8
    [] ty \in {"I16", "B16"} -> 16
    [] ty \in {"I32", "F32", "B32", "R32"} -> 32
    [] ty \in {"I64", "F64", "R64", "B64"} -> 64
    [] OTHER -> 128

ty_bytes(ty) == (ty_bits(ty) + 7) \div 8

ty_is_vector(ty) == ty \in VecTypes

\* Width of a value of `bits` real bits in the scaled machine.
SBits(bits) ==
  CASE bits >= 64 -> WordBits
    [] bits = 32 -> HalfBits
    [] bits = 1 -> 1
    [] OTHER -> ByteBits

Trunc(v, n) == v % Pow2(n)

Signed(v, n) == IF Trunc(v, n) >= Pow2(n - 1) THEN Trunc(v, n) - Pow2(n) ELSE Trunc(v, n)

\* Sign-extension of the low `from` bits of v to `to` bits.
SignExtend(v, from, to) == Trunc(Signed(v, from) + Pow2(to), to)

low32_will_sign_extend_to_64(x) == x = SignExtend(x, HalfBits, WordBits)

-----------------------------------------------------------------------------
(* Condition codes.                                                        *)

OrderedIntCC ==
  {"SignedLessThan", "SignedLessThanOrEqual", "SignedGreaterThan",
   "SignedGreaterThanOrEqual", "UnsignedLessThan", "UnsignedLessThanOrEqual",
   "UnsignedGreaterThan", "UnsignedGreaterThanOrEqual"}

IntCCs == {"Equal", "NotEqual", "Overflow", "NotOverflow"} \cup OrderedIntCC

IntCC_inverse(cc) ==
  CASE cc = "Equal" -> "NotEqual"
    [] cc = "NotEqual" -> "Equal"
    [] cc = "SignedLessThan" -> "SignedGreaterThanOrEqual"
    [] cc = "SignedGreaterThanOrEqual" -> "SignedLessThan"
    [] cc = "SignedGreaterThan" -> "SignedLessThanOrEqual"
    [] cc = "SignedLessThanOrEqual" -> "SignedGreaterThan"
    [] cc = "UnsignedLessThan" -> "UnsignedGreaterThanOrEqual"
    [] cc = "UnsignedGreaterThanOrEqual" -> "UnsignedLessThan"
    [] cc = "UnsignedGreaterThan" -> "UnsignedLessThanOrEqual"
    [] cc = "UnsignedLessThanOrEqual" -> "UnsignedGreaterThan"
    [] cc = "Overflow" -> "NotOverflow"
    [] cc = "NotOverflow" -> "Overflow"

IntCC_without_equal(cc) ==
  CASE cc \in {"SignedGreaterThan", "SignedGreaterThanOrEqual"} -> "SignedGreaterThan"
    [] cc \in {"SignedLessThan", "SignedLessThanOrEqual"} -> "SignedLessThan"
    [] cc \in {"UnsignedGreaterThan", "UnsignedGreaterThanOrEqual"} -> "UnsignedGreaterThan"
    [] cc \in {"UnsignedLessThan", "UnsignedLessThanOrEqual"} -> "UnsignedLessThan"
    [] OTHER -> cc

IntCC_unsigned(cc) ==
  CASE cc \in {"SignedGreaterThan", "UnsignedGreaterThan"} -> "UnsignedGreaterThan"
    [] cc \in {"SignedGreaterThanOrEqual", "UnsignedGreaterThanOrEqual"} -> "UnsignedGreaterThanOrEqual"
    [] cc \in {"SignedLessThan", "UnsignedLessThan"} -> "UnsignedLessThan"
    [] cc \in {"SignedLessThanOrEqual", "UnsignedLessThanOrEqual"} -> "UnsignedLessThanOrEqual"
    [] OTHER -> cc

CC_from_intcc(cc) ==
  CASE cc = "Equal" -> "Z"
    [] cc = "NotEqual" -> "NZ"
    [] cc = "SignedGreaterThanOrEqual" -> "NL"
    [] cc = "SignedGreaterThan" -> "NLE"
    [] cc = "SignedLessThanOrEqual" -> "LE"
    [] cc = "SignedLessThan" -> "L"
    [] cc = "UnsignedGreaterThanOrEqual" -> "NB"
    [] cc = "UnsignedGreaterThan" -> "NBE"
    [] cc = "UnsignedLessThanOrEqual" -> "BE"
    [] cc = "UnsignedLessThan" -> "B"
    [] cc = "Overflow" -> "O"
    [] cc = "NotOverflow" -> "NO"

CC_invert(cc) ==
  CASE cc = "O" -> "NO"
    [] cc = "NO" -> "O"
    [] cc = "B" -> "NB"
    [] cc = "NB" -> "B"
    [] cc = "Z" -> "NZ"
    [] cc = "NZ" -> "Z"
    [] cc = "BE" -> "NBE"
    [] cc = "NBE" -> "BE"
    [] cc = "S" -> "NS"
    [] cc = "NS" -> "S"
    [] cc = "L" -> "NL"
    [] cc = "NL" -> "L"
    [] cc = "LE" -> "NLE"
    [] cc = "NLE" -> "LE"
    [] cc = "P" -> "NP"
    [] cc = "NP" -> "P"

\* Whether condition cc holds of the flags f (Intel SDM, condition tests).
CCHolds(cc, f) ==
  CASE cc = "O" -> f.of
    [] cc = "NO" -> ~f.of
    [] cc = "B" -> f.cf
    [] cc = "NB" -> ~f.cf
    [] cc = "Z" -> f.zf
    [] cc = "NZ" -> ~f.zf
    [] cc = "BE" -> f.cf \/ f.zf
    [] cc = "NBE" -> ~f.cf /\ ~f.zf
    [] cc = "S" -> f.sf
    [] cc = "NS" -> ~f.sf
    [] cc = "L" -> f.sf # f.of
    [] cc = "NL" -> f.sf = f.of
    [] cc = "LE" -> f.zf \/ (f.sf # f.of)
    [] cc = "NLE" -> ~f.zf /\ (f.sf = f.of)
    [] cc = "P" -> f.pf
    [] cc = "NP" -> ~f.pf

\* The IR meaning of `a cc b` on integers of n bits.
IntCCHolds(cc, a, b, n) ==
  CASE cc = "Equal" -> Trunc(a, n) = Trunc(b, n)
    [] cc = "NotEqual" -> Trunc(a, n) # Trunc(b, n)
    [] cc = "SignedLessThan" -> Signed(a, n) < Signed(b, n)
    [] cc = "SignedLessThanOrEqual" -> Signed(a, n) <= Signed(b, n)
    [] cc = "SignedGreaterThan" -> Signed(a, n) > Signed(b, n)
    [] cc = "SignedGreaterThanOrEqual" -> Signed(a, n) >= Signed(b, n)
    [] cc = "UnsignedLessThan" -> Trunc(a, n) < Trunc(b, n)
    [] cc = "UnsignedLessThanOrEqual" -> Trunc(a, n) <= Trunc(b, n)
    [] cc = "UnsignedGreaterThan" -> Trunc(a, n) > Trunc(b, n)
    [] cc = "UnsignedGreaterThanOrEqual" -> Trunc(a, n) >= Trunc(b, n)
    [] cc = "Overflow" ->
         \/ Signed(a, n) - Signed(b, n) >= Pow2(n - 1)
         \/ Signed(a, n) - Signed(b, n) < 0 - Pow2(n - 1)
    [] cc = "NotOverflow" ->
         /\ Signed(a, n) - Signed(b, n) < Pow2(n - 1)
         /\ Signed(a, n) - Signed(b, n) >= 0 - Pow2(n - 1)

FloatCCs ==
  {"Ordered", "Unordered", "Equal", "NotEqual", "OrderedNotEqual", "UnorderedOrEqual",
   "LessThan", "LessThanOrEqual", "GreaterThan", "GreaterThanOrEqual",
   "UnorderedOrLessThan", "UnorderedOrLessThanOrEqual", "UnorderedOrGreaterThan",
   "UnorderedOrGreaterThanOrEqual"}

FloatCC_reverse(cc) ==
  CASE cc = "LessThan" -> "GreaterThan"
    [] cc = "GreaterThan" -> "LessThan"
    [] cc = "LessThanOrEqual" -> "GreaterThanOrEqual"
    [] cc = "GreaterThanOrEqual" -> "LessThanOrEqual"
    [] cc = "UnorderedOrLessThan" -> "UnorderedOrGreaterThan"
    [] cc = "UnorderedOrGreaterThan" -> "UnorderedOrLessThan"
    [] cc = "UnorderedOrLessThanOrEqual" -> "UnorderedOrGreaterThanOrEqual"
    [] cc = "UnorderedOrGreaterThanOrEqual" -> "UnorderedOrLessThanOrEqual"
    [] OTHER -> cc

FloatCC_inverse(cc) ==
  CASE cc = "Ordered" -> "Unordered"
    [] cc = "Unordered" -> "Ordered"
    [] cc = "Equal" -> "NotEqual"
    [] cc = "NotEqual" -> "Equal"
    [] cc = "OrderedNotEqual" -> "UnorderedOrEqual"
    [] cc = "UnorderedOrEqual" -> "OrderedNotEqual"
    [] cc = "LessThan" -> "UnorderedOrGreaterThanOrEqual"
    [] cc = "UnorderedOrGreaterThanOrEqual" -> "LessThan"
    [] cc = "LessThanOrEqual" -> "UnorderedOrGreaterThan"
    [] cc = "UnorderedOrGreaterThan" -> "LessThanOrEqual"
    [] cc = "GreaterThan" -> "UnorderedOrLessThanOrEqual"
    [] cc = "UnorderedOrLessThanOrEqual" -> "GreaterThan"
    [] cc = "GreaterThanOrEqual" -> "UnorderedOrLessThan"
    [] cc = "UnorderedOrLessThan" -> "GreaterThanOrEqual"

\* CC::from_floatcc: the conditions a ucomis sets directly; the others panic.
CC_from_floatcc(cc) ==
  CASE cc = "Ordered" -> "NP"
    [] cc = "Unordered" -> "P"
    [] cc = "OrderedNotEqual" -> "NZ"
    [] cc = "UnorderedOrEqual" -> "Z"
    [] cc = "GreaterThan" -> "NBE"
    [] cc = "GreaterThanOrEqual" -> "NB"
    [] cc = "UnorderedOrLessThan" -> "B"
    [] cc = "UnorderedOrLessThanOrEqual" -> "BE"
    [] OTHER -> "panic"

\* The IEEE meaning of `a cc b`; a float is a number and 0 stands for NaN.
FloatCCHolds(cc, a, b) ==
  LET un == a = 0 \/ b = 0
      lt == ~un /\ a < b
      eq == ~un /\ a = b
      gt == ~un /\ a > b
  IN CASE cc = "Ordered" -> ~un
       [] cc = "Unordered" -> un
       [] cc = "Equal" -> eq
       [] cc = "NotEqual" -> ~eq
       [] cc = "OrderedNotEqual" -> lt \/ gt
       [] cc = "UnorderedOrEqual" -> un \/ eq
       [] cc = "LessThan" -> lt
       [] cc = "LessThanOrEqual" -> lt \/ eq
       [] cc = "GreaterThan" -> gt
       [] cc = "GreaterThanOrEqual" -> gt \/ eq
       [] cc = "UnorderedOrLessThan" -> un \/ lt
       [] cc = "UnorderedOrLessThanOrEqual" -> un \/ lt \/ eq
       [] cc = "UnorderedOrGreaterThan" -> un \/ gt
       [] cc = "UnorderedOrGreaterThanOrEqual" -> un \/ gt \/ eq

-----------------------------------------------------------------------------
(* Machine instructions and operands.                                      *)

RegMemImm_reg(r) == [kind |-> "reg", reg |-> r]

RegMemImm_imm(x) == [kind |-> "imm", simm32 |-> x]

RegMemImm_mem(a) == [kind |-> "mem", addr |-> a]

Amode_imm_reg(simm32, base, fl) ==
  [amode |-> "ImmReg", simm32 |-> simm32, base |-> base, flags |-> fl]

Amode_imm_reg_reg_shift(simm32, base, index, shift, fl) ==
  [amode |-> "ImmRegRegShift", simm32 |-> simm32, base |-> base, index |-> index,
   shift |-> shift, flags |-> fl]

Inst_cmp_rmi_r(size, src, dst) == [op |-> "cmp", size |-> size, src |-> src, dst |-> dst]

Inst_test_rmi_r(size, src, dst) == [op |-> "test", size |-> size, src |-> src, dst |-> dst]

Inst_setcc(cc, dst) == [op |-> "setcc", cc |-> cc, dst |-> dst]

Inst_alu_rmi_r(size, alu, src, dst) ==
  [op |-> "alu", size |-> size, alu |-> alu, src |-> src, dst |-> dst]

Inst_imm(size, simm64, dst) == [op |-> "imm", size |-> size, simm64 |-> simm64, dst |-> dst]

Inst_gpr_to_xmm(src, dst) == [op |-> "gpr_to_xmm", src |-> src, dst |-> dst]

Inst_movzx_rm_r(from, to, src, dst) ==
  [op |-> "movzx", from |-> from, size |-> to, src |-> src, dst |-> dst]

\* Ucomiss compares the low 32 bits of its operands, Ucomisd the low 64.
Inst_xmm_cmp_rm_r(sse, src, dst) ==
  [op |-> "xmm_cmp", sse |-> sse, size |-> IF sse = "Ucomiss" THEN 32 ELSE 64,
   src |-> src, dst |-> dst]

Inst_jmp_known(target) == [op |-> "jmp_known", taken |-> target]

Inst_jmp_if(cc, taken) == [op |-> "jmp_if", cc |-> cc, taken |-> taken]

Inst_jmp_cond(cc, taken, not_taken) ==
  [op |-> "jmp_cond", cc |-> cc, taken |-> taken, not_taken |-> not_taken]

Inst_JmpTableSeq(idx, tmp1, tmp2, default_target, targets) ==
  [op |-> "jmp_table_seq", idx |-> idx, tmp1 |-> tmp1, tmp2 |-> tmp2,
   default_target |-> default_target, targets |-> targets]

\* OperandSize::from_ty: the operand size, in real bits, of the bytes of ty.
OperandSize_from_ty(ty) == ty_bytes(ty) * 8

-----------------------------------------------------------------------------
(* The lowering context: the instructions emitted so far, the virtual      *)
(* register counter and the IR instructions sunk into their consumer.      *)

Ctx == [insts |-> insts, next_vreg |-> next_vreg, sunk |-> sunk]

ctx_emit(c, i) == [c EXCEPT !.insts = Append(@, i)]

ctx_emit_all(c, is) == [c EXCEPT !.insts = @ \o is]

\* alloc_tmp of a type held in n registers: the next n virtual registers.
ctx_alloc_tmp(c, n) ==
  [ctx |-> [c EXCEPT !.next_vreg = @ + n],
   val |-> [k \in 1 .. n |-> c.next_vreg + k - 1]]

ctx_sink_inst(c, i) == [c EXCEPT !.sunk = Append(@, i)]

\* Registers a value of type ty occupies (Inst::rc_for_type).
NumRegs(ty) == IF ty = "I128" THEN 2 ELSE 1

\* The NonRegInput of an instruction input, with the input's type and the
\* registers the context holds the value in.
Src(spec) == ir.insns[spec.insn].inputs[spec.input + 1]

InsnInput(i, k) == [insn |-> i, input |-> k]

\* Option::None where the Some case is a record.
NoneRec == [some |-> FALSE]

ctx_input_ty(spec) == Src(spec).ty

ctx_output_ty(i) == ir.insns[i].out_ty

ctx_num_inputs(i) == ir.insns[i].num_inputs

\* Inst::gen_constant: the instructions loading `value` into the registers
\* dst of a value of type ty; tmp is the scratch register a float needs.
Inst_gen_constant(dst, value, ty, tmp) ==
  CASE ty = "I128" ->
         <<Inst_imm(64, value, dst[1]), Inst_imm(64, 0, dst[2])>>
    [] ty \in {"F32", "F64"} ->
         <<Inst_imm(64, value, tmp), Inst_gpr_to_xmm(tmp, dst[1])>>
    [] OTHER ->
         <<Inst_imm(IF ty_bits(ty) = 64 THEN 64 ELSE 32, value, dst[1])>>

\* generate_constant keeping every constant in the same registers instead of
\* allocating a temporary.
generate_constant_shared(c, ty, k) ==
  LET from_bits == ty_bits(ty)
      masked == IF from_bits < 64 THEN Trunc(k, SBits(from_bits)) ELSE k
      cst_copy == [n \in 1 .. NumRegs(ty) |-> RegFileSize - n]
  IN [ctx |-> ctx_emit_all(c, Inst_gen_constant(cst_copy, masked, ty, RegFileSize)),
      val |-> cst_copy]

generate_constant(c, ty, k) ==
  LET from_bits == ty_bits(ty)
      masked == IF from_bits < 64 THEN Trunc(k, SBits(from_bits)) ELSE k
      cst_copy == ctx_alloc_tmp(c, NumRegs(ty))
      scratch == IF ty \in {"F32", "F64"}
                 THEN ctx_alloc_tmp(cst_copy.ctx, 1)
                 ELSE [ctx |-> cst_copy.ctx, val |-> <<0>>]
  IN [ctx |-> ctx_emit_all(scratch.ctx,
                 Inst_gen_constant(cst_copy.val, masked, ty, scratch.val[1])),
      val |-> cst_copy.val]

put_input_in_regs(c, spec) ==
  LET ty == ctx_input_ty(spec)
      input == Src(spec)
  IN IF input.constant # None
       THEN generate_constant(c, ty, input.constant)
       ELSE [ctx |-> c, val |-> input.regs]

\* only_reg(): a one-register value, or the panic of expect()/unwrap().
only_reg(r) == [ctx |-> r.ctx, val |-> IF Len(r.val) = 1 THEN r.val[1] ELSE Panic]

put_input_in_reg(c, spec) == only_reg(put_input_in_regs(c, spec))

\* matches_input answering only for an instruction whose result has no other
\* use.
matches_input_unique_use(spec, op) ==
  LET inputs == Src(spec)
  IN IF inputs.src = "UniqueUse" /\ ir.insns[inputs.insn].opcode = op
       THEN inputs.insn
       ELSE None

\* matches_input: the instruction producing the input, used once or more, if
\* its opcode is op.
matches_input(spec, op) ==
  LET inputs == Src(spec)
  IN IF inputs.src \in {"UniqueUse", "Use"} /\ ir.insns[inputs.insn].opcode = op
       THEN inputs.insn
       ELSE None

\* is_mergeable_load without the test of the width of the loaded value.
is_mergeable_load_any_width(src_insn) ==
  LET insn_data == ir.insns[src_insn]
      load_ty == ctx_output_ty(src_insn)
  IN IF ctx_num_inputs(src_insn) # 1 THEN NoneRec
     ELSE IF ty_is_vector(load_ty) /\ ~insn_data.aligned THEN NoneRec
     ELSE IF insn_data.opcode = "Load"
       THEN [some |-> TRUE, input |-> InsnInput(src_insn, 0), offset |-> insn_data.offset]
       ELSE NoneRec

is_mergeable_load(src_insn) ==
  LET insn_data == ir.insns[src_insn]
      load_ty == ctx_output_ty(src_insn)
  IN IF ctx_num_inputs(src_insn) # 1 THEN NoneRec
     ELSE IF ty_bits(load_ty) < 32 THEN NoneRec
     ELSE IF ty_is_vector(load_ty) /\ ~insn_data.aligned THEN NoneRec
     ELSE IF insn_data.opcode = "Load"
       THEN [some |-> TRUE, input |-> InsnInput(src_insn, 0), offset |-> insn_data.offset]
       ELSE NoneRec

input_to_imm(spec) == Src(spec).constant

\* matches_small_constant_shift accepting a constant shift of any amount.
matches_small_constant_shift_any_amount(spec) ==
  LET shift == matches_input(spec, "Ishl")
  IN IF shift = None THEN NoneRec
     ELSE LET shift_amt == input_to_imm(InsnInput(shift, 1))
          IN IF shift_amt # None
               THEN [some |-> TRUE, input |-> InsnInput(shift, 0), amt |-> shift_amt]
               ELSE NoneRec

matches_small_constant_shift(spec) ==
  LET shift == matches_input(spec, "Ishl")
  IN IF shift = None THEN NoneRec
     ELSE LET shift_amt == input_to_imm(InsnInput(shift, 1))
          IN IF shift_amt # None /\ shift_amt <= 3
               THEN [some |-> TRUE, input |-> InsnInput(shift, 0), amt |-> shift_amt]
               ELSE NoneRec

\* The folding step committing the sum without the test that it is the
\* sign-extension of its low half.
amode_fold_unchecked(c, add, i, offset, fl) ==
  LET uextend == matches_input(InsnInput(add, i), "Uextend")
      ucst == IF uextend # None THEN Src(InsnInput(uextend, 0)).constant ELSE None
      input_size == ty_bits(ctx_input_ty(InsnInput(uextend, 0)))
      uext_cst == Trunc(ucst, SBits(input_size))
      uoffset == Trunc(SignExtend(offset, HalfBits, WordBits) + uext_cst, WordBits)
      cst == Src(InsnInput(add, i)).constant
      final_offset == Trunc(SignExtend(offset, HalfBits, WordBits) + cst, WordBits)
      base == put_input_in_reg(c, InsnInput(add, 1 - i))
  IN IF ucst # None
       THEN [some |-> TRUE, ctx |-> base.ctx,
             val |-> Amode_imm_reg(Trunc(uoffset, HalfBits), base.val, fl)]
     ELSE IF cst # None
       THEN [some |-> TRUE, ctx |-> base.ctx,
             val |-> Amode_imm_reg(Trunc(final_offset, HalfBits), base.val, fl)]
     ELSE NoneRec

\* One step of the constant-folding loop of lower_to_amode, for operand i of
\* the add: the addressing mode if the operand folds into the displacement.
amode_fold(c, add, i, offset, fl) ==
  LET uextend == matches_input(InsnInput(add, i), "Uextend")
      ucst == IF uextend # None THEN Src(InsnInput(uextend, 0)).constant ELSE None
      input_size == ty_bits(ctx_input_ty(InsnInput(uextend, 0)))
      uext_cst == Trunc(ucst, SBits(input_size))
      uoffset == Trunc(SignExtend(offset, HalfBits, WordBits) + uext_cst, WordBits)
      cst == Src(InsnInput(add, i)).constant
      final_offset == Trunc(SignExtend(offset, HalfBits, WordBits) + cst, WordBits)
      base == put_input_in_reg(c, InsnInput(add, 1 - i))
  IN IF ucst # None /\ low32_will_sign_extend_to_64(uoffset)
       THEN [some |-> TRUE, ctx |-> base.ctx,
             val |-> Amode_imm_reg(Trunc(uoffset, HalfBits), base.val, fl)]
     ELSE IF cst # None /\ low32_will_sign_extend_to_64(final_offset)
       THEN [some |-> TRUE, ctx |-> base.ctx,
             val |-> Amode_imm_reg(Trunc(final_offset, HalfBits), base.val, fl)]
     ELSE NoneRec

\* lower_to_amode whose fallback keeps only the first operand of the add.
lower_to_amode_first_operand_only(c, spec, offset) ==
  LET fl == ir.insns[spec.insn].aligned
      add == matches_input(spec, "Iadd")
      in0 == InsnInput(add, 0)
      in1 == InsnInput(add, 1)
      s0 == matches_small_constant_shift(in0)
      s1 == matches_small_constant_shift(in1)
      f0 == amode_fold(c, add, 0, offset, fl)
      f1 == amode_fold(c, add, 1, offset, fl)
      regreg(bi, xi, sh) ==
        LET b == put_input_in_reg(c, bi)
            x == put_input_in_reg(b.ctx, xi)
        IN [ctx |-> x.ctx,
            val |-> Amode_imm_reg_reg_shift(offset, b.val, x.val, sh, fl)]
      first == put_input_in_reg(c, in0)
      input == put_input_in_reg(c, spec)
  IN IF add # None
       THEN IF s0.some THEN regreg(in1, s0.input, s0.amt)
            ELSE IF s1.some THEN regreg(in0, s1.input, s1.amt)
            ELSE IF f0.some THEN [ctx |-> f0.ctx, val |-> f0.val]
            ELSE IF f1.some THEN [ctx |-> f1.ctx, val |-> f1.val]
            ELSE [ctx |-> first.ctx, val |-> Amode_imm_reg(offset, first.val, fl)]
       ELSE [ctx |-> input.ctx, val |-> Amode_imm_reg(offset, input.val, fl)]

lower_to_amode(c, spec, offset) ==
  LET fl == ir.insns[spec.insn].aligned
      add == matches_input(spec, "Iadd")
      in0 == InsnInput(add, 0)
      in1 == InsnInput(add, 1)
      s0 == matches_small_constant_shift(in0)
      s1 == matches_small_constant_shift(in1)
      f0 == amode_fold(c, add, 0, offset, fl)
      f1 == amode_fold(c, add, 1, offset, fl)
      regreg(bi, xi, sh) ==
        LET b == put_input_in_reg(c, bi)
            x == put_input_in_reg(b.ctx, xi)
        IN [ctx |-> x.ctx,
            val |-> Amode_imm_reg_reg_shift(offset, b.val, x.val, sh, fl)]
      input == put_input_in_reg(c, spec)
  IN IF add # None
       THEN IF s0.some THEN regreg(in1, s0.input, s0.amt)
            ELSE IF s1.some THEN regreg(in0, s1.input, s1.amt)
            ELSE IF f0.some THEN [ctx |-> f0.ctx, val |-> f0.val]
            ELSE IF f1.some THEN [ctx |-> f1.ctx, val |-> f1.val]
            ELSE regreg(in0, in1, 0)
       ELSE [ctx |-> input.ctx, val |-> Amode_imm_reg(offset, input.val, fl)]

\* RegMem::reg(r.only_reg().unwrap()): the register of a one-register value.
RegMem_reg_of(r) ==
  [ctx |-> r.ctx,
   val |-> IF Len(r.val) = 1 THEN RegMemImm_reg(r.val[1]) ELSE [kind |-> "panic"]]

\* RegMem::mem of the addressing mode r.
RegMem_mem_of(r) == [ctx |-> r.ctx, val |-> RegMemImm_mem(r.val)]

\* input_to_reg_mem merging a load whatever the number of its uses.
input_to_reg_mem_any_use(c, spec) ==
  LET inputs == Src(spec)
      m == is_mergeable_load(inputs.insn)
  IN IF inputs.constant # None
       THEN RegMem_reg_of(generate_constant(c, ctx_input_ty(spec), inputs.constant))
     ELSE IF inputs.src \in {"UniqueUse", "Use"} /\ inputs.idx = 0 /\ m.some
       THEN RegMem_mem_of(lower_to_amode(ctx_sink_inst(c, inputs.insn), m.input, m.offset))
     ELSE RegMem_reg_of([ctx |-> c, val |-> inputs.regs])

input_to_reg_mem(c, spec) ==
  LET inputs == Src(spec)
      m == is_mergeable_load(inputs.insn)
  IN IF inputs.constant # None
       THEN RegMem_reg_of(generate_constant(c, ctx_input_ty(spec), inputs.constant))
     ELSE IF inputs.src = "UniqueUse" /\ inputs.idx = 0 /\ m.some
       THEN RegMem_mem_of(lower_to_amode(ctx_sink_inst(c, inputs.insn), m.input, m.offset))
     ELSE RegMem_reg_of([ctx |-> c, val |-> inputs.regs])

\* non_reg_input_to_sext_imm taking the low 32 bits of every constant.
non_reg_input_to_sext_imm_any(input, input_ty) ==
  IF input.constant # None THEN Trunc(input.constant, HalfBits) ELSE None

non_reg_input_to_sext_imm(input, input_ty) ==
  IF input.constant # None
       /\ (ty_bytes(input_ty) # 8 \/ low32_will_sign_extend_to_64(input.constant))
    THEN Trunc(input.constant, HalfBits)
    ELSE None

input_to_reg_mem_imm(c, spec) ==
  LET input == Src(spec)
      input_ty == ctx_input_ty(spec)
      x == non_reg_input_to_sext_imm(input, input_ty)
  IN IF x # None
       THEN [ctx |-> c, val |-> RegMemImm_imm(x)]
       ELSE input_to_reg_mem(c, spec)

\* ExtMode::new: whether the hardware has an extension from a to b bits.
ExtMode_new(a, b) ==
  <<a, b>> \in {<<1, 8>>, <<1, 16>>, <<1, 32>>, <<8, 16>>, <<8, 32>>, <<1, 64>>,
                <<8, 64>>, <<16, 32>>, <<16, 64>>, <<32, 64>>}

\* extend_input_to_reg with a zero-extending ExtSpec to requested_size bits.
\* The zero extension of src, from input_size to requested_size bits, into a
\* new temporary.
extend_to_tmp(src, input_size, requested_size) ==
  LET dst == ctx_alloc_tmp(src.ctx, 1)
  IN [ctx |-> ctx_emit(dst.ctx,
                Inst_movzx_rm_r(input_size, requested_size, src.val, dst.val[1])),
      val |-> dst.val[1]]

extend_input_to_reg(c, spec, requested_size) ==
  LET input_size == ty_bits(ctx_input_ty(spec))
  IN IF input_size = requested_size \/ (input_size = 1 /\ requested_size = 8)
       THEN put_input_in_reg(c, spec)
     ELSE IF ~ExtMode_new(input_size, requested_size)
       THEN [ctx |-> c, val |-> Panic]
     ELSE extend_to_tmp(input_to_reg_mem(c, spec), input_size, requested_size)

-----------------------------------------------------------------------------
(* Comparison emitters.                                                    *)

\* The I128 arm of emit_cmp for Equal and NotEqual: two flag tests combined
\* with `alu`, masked to bit 0.
emit_cmp_i128_eq(c, setcc_cc, alu, lhs, rhs, cmp1, cmp2) ==
  ctx_emit_all(c,
    <<Inst_cmp_rmi_r(64, RegMemImm_reg(rhs[2]), lhs[2]),
      Inst_setcc(setcc_cc, cmp1),
      Inst_cmp_rmi_r(64, RegMemImm_reg(rhs[1]), lhs[1]),
      Inst_setcc(setcc_cc, cmp2),
      Inst_alu_rmi_r(64, alu, RegMemImm_reg(cmp1), cmp2),
      Inst_alu_rmi_r(64, "And", RegMemImm_imm(1), cmp2)>>)

\* emit_cmp_i128_ord comparing the low halves with the requested (possibly
\* signed) relation instead of its unsigned form.
emit_cmp_i128_ord_signed_low(c, cc, lhs, rhs, cmp1, cmp2, cmp3) ==
  ctx_emit_all(c,
    <<Inst_cmp_rmi_r(64, RegMemImm_reg(rhs[2]), lhs[2]),
      Inst_setcc(CC_from_intcc(IntCC_without_equal(cc)), cmp1),
      Inst_setcc("Z", cmp2),
      Inst_cmp_rmi_r(64, RegMemImm_reg(rhs[1]), lhs[1]),
      Inst_setcc(CC_from_intcc(cc), cmp3),
      Inst_alu_rmi_r(64, "And", RegMemImm_reg(cmp2), cmp3),
      Inst_alu_rmi_r(64, "Or", RegMemImm_reg(cmp1), cmp3),
      Inst_alu_rmi_r(64, "And", RegMemImm_imm(1), cmp3)>>)

\* The I128 arm of emit_cmp for the ordered relations:
\* (lhs_hi <> rhs_hi) || (lhs_hi == rhs_hi && lhs_lo <> rhs_lo).
emit_cmp_i128_ord(c, cc, lhs, rhs, cmp1, cmp2, cmp3) ==
  ctx_emit_all(c,
    <<Inst_cmp_rmi_r(64, RegMemImm_reg(rhs[2]), lhs[2]),
      Inst_setcc(CC_from_intcc(IntCC_without_equal(cc)), cmp1),
      Inst_setcc("Z", cmp2),
      Inst_cmp_rmi_r(64, RegMemImm_reg(rhs[1]), lhs[1]),
      Inst_setcc(CC_from_intcc(IntCC_unsigned(cc)), cmp3),
      Inst_alu_rmi_r(64, "And", RegMemImm_reg(cmp2), cmp3),
      Inst_alu_rmi_r(64, "Or", RegMemImm_reg(cmp1), cmp3),
      Inst_alu_rmi_r(64, "And", RegMemImm_imm(1), cmp3)>>)

\* emit_cmp_rmi_r without the operand swap: the compare computes rhs - lhs
\* when both operands are registers.
emit_cmp_rmi_r_unswapped(rhs, lhs, ty, cc) ==
  [ctx |-> ctx_emit(rhs.ctx,
             IF rhs.val.kind = "reg"
               THEN Inst_cmp_rmi_r(OperandSize_from_ty(ty), RegMemImm_reg(lhs), rhs.val.reg)
               ELSE Inst_cmp_rmi_r(OperandSize_from_ty(ty), rhs.val, lhs)),
   val |-> cc]

\* The compare of the register lhs with the resolved operand rhs: dst - src
\* with src the IR right-hand side and dst the IR left-hand side; cc is
\* handed back.
emit_cmp_rmi_r(rhs, lhs, ty, cc) ==
  [ctx |-> ctx_emit(rhs.ctx, Inst_cmp_rmi_r(OperandSize_from_ty(ty), rhs.val, lhs)),
   val |-> cc]

\* The arm of emit_cmp for every type but I128: one compare.
emit_cmp_narrow(c, insn, cc) ==
  LET ty == ctx_input_ty(InsnInput(insn, 0))
      lhs == put_input_in_reg(c, InsnInput(insn, 0))
  IN emit_cmp_rmi_r(input_to_reg_mem_imm(lhs.ctx, InsnInput(insn, 1)), lhs.val, ty, cc)

emit_cmp(c, insn, cc) ==
  LET ty == ctx_input_ty(InsnInput(insn, 0))
      cmp1 == ctx_alloc_tmp(c, 1)
      cmp2 == ctx_alloc_tmp(cmp1.ctx, 1)
      lhs == put_input_in_regs(cmp2.ctx, InsnInput(insn, 0))
      rhs == put_input_in_regs(lhs.ctx, InsnInput(insn, 1))
      cmp3 == ctx_alloc_tmp(rhs.ctx, 1)
  IN IF ty = "I128"
       THEN CASE cc = "Equal" ->
                   [ctx |-> emit_cmp_i128_eq(rhs.ctx, "Z", "And", lhs.val, rhs.val,
                                             cmp1.val[1], cmp2.val[1]),
                    val |-> "NotEqual"]
              [] cc = "NotEqual" ->
                   [ctx |-> emit_cmp_i128_eq(rhs.ctx, "NZ", "Or", lhs.val, rhs.val,
                                             cmp1.val[1], cmp2.val[1]),
                    val |-> "NotEqual"]
              [] cc \in OrderedIntCC ->
                   [ctx |-> emit_cmp_i128_ord(cmp3.ctx, cc, lhs.val, rhs.val,
                                              cmp1.val[1], cmp2.val[1], cmp3.val[1]),
                    val |-> "NotEqual"]
              [] OTHER -> [ctx |-> rhs.ctx, val |-> "panic"]
       ELSE emit_cmp_narrow(c, insn, cc)

FcmpCondResult(kind, cc1, cc2) == [kind |-> kind, cc1 |-> cc1, cc2 |-> cc2]

\* fcmp_cond_result testing only ZF for Equal, as for an integer compare.
fcmp_cond_result_equal_is_z(cond_code, inverted_equal) ==
  CASE cond_code = "Equal" -> FcmpCondResult("AndConditions", "Z", "Z")
    [] cond_code = "NotEqual" /\ inverted_equal ->
         FcmpCondResult("InvertedEqualOrConditions", "P", "NZ")
    [] cond_code = "NotEqual" /\ ~inverted_equal ->
         FcmpCondResult("OrConditions", "P", "NZ")
    [] OTHER ->
         IF CC_from_floatcc(cond_code) = "panic"
           THEN FcmpCondResult("panic", "", "")
           ELSE FcmpCondResult("Condition", CC_from_floatcc(cond_code), "")

\* fcmp_cond_result answering InvertedEqualOrConditions for NotEqual whether
\* or not an Equal was inverted.
fcmp_cond_result_not_equal_inverted(cond_code, inverted_equal) ==
  CASE cond_code = "Equal" -> FcmpCondResult("AndConditions", "NP", "Z")
    [] cond_code = "NotEqual" -> FcmpCondResult("InvertedEqualOrConditions", "P", "NZ")
    [] OTHER ->
         IF CC_from_floatcc(cond_code) = "panic"
           THEN FcmpCondResult("panic", "", "")
           ELSE FcmpCondResult("Condition", CC_from_floatcc(cond_code), "")

\* The FcmpCondResult emit_fcmp builds from the normalised condition code.
fcmp_cond_result(cond_code, inverted_equal) ==
  CASE cond_code = "Equal" -> FcmpCondResult("AndConditions", "NP", "Z")
    [] cond_code = "NotEqual" /\ inverted_equal ->
         FcmpCondResult("InvertedEqualOrConditions", "P", "NZ")
    [] cond_code = "NotEqual" /\ ~inverted_equal ->
         FcmpCondResult("OrConditions", "P", "NZ")
    [] OTHER ->
         IF CC_from_floatcc(cond_code) = "panic"
           THEN FcmpCondResult("panic", "", "")
           ELSE FcmpCondResult("Condition", CC_from_floatcc(cond_code), "")

\* The float compare of the register lhs with the resolved operand rhs; the
\* FcmpCondResult is handed back.
emit_xmm_cmp_rm_r(rhs, lhs, op, result) ==
  [ctx |-> ctx_emit(rhs.ctx, Inst_xmm_cmp_rm_r(op, rhs.val, lhs)), val |-> result]

emit_fcmp(c, insn, cc, spec) ==
  LET flip_operands == cc \in {"LessThan", "LessThanOrEqual", "UnorderedOrGreaterThan",
                               "UnorderedOrGreaterThanOrEqual"}
      inverted_equal == cc = "Equal" /\ spec = "InvertEqual"
      cond_code == IF flip_operands THEN FloatCC_reverse(cc)
                   ELSE IF inverted_equal THEN "NotEqual"
                   ELSE cc
      ty == ctx_input_ty(InsnInput(insn, 0))
      op == IF ty = "F32" THEN "Ucomiss" ELSE "Ucomisd"
      lhs_input == IF flip_operands THEN InsnInput(insn, 1) ELSE InsnInput(insn, 0)
      rhs_input == IF flip_operands THEN InsnInput(insn, 0) ELSE InsnInput(insn, 1)
      lhs == put_input_in_reg(c, lhs_input)
  IN IF ty \notin {"F32", "F64"}
       THEN [ctx |-> c, val |-> FcmpCondResult("panic", "", "")]
       ELSE emit_xmm_cmp_rm_r(input_to_reg_mem(lhs.ctx, rhs_input), lhs.val, op,
                              fcmp_cond_result(cond_code, inverted_equal))

-----------------------------------------------------------------------------
(* Branch-group lowering.                                                  *)

is_int_or_ref_ty(ty) ==
  CASE ty \in {"I8", "I16", "I32", "I64", "R64"} -> "true"
    [] ty \in {"B1", "B8", "B16", "B32", "B64"} -> "true"
    [] ty = "R32" -> "panic"
    [] OTHER -> "false"

is_bool_ty(ty) ==
  CASE ty \in {"B1", "B8", "B16", "B32", "B64"} -> "true"
    [] ty = "R32" -> "panic"
    [] OTHER -> "false"

\* regs::rsp(), the stack pointer.
rsp == RegFileSize

BranchOk(c) == [ctx |-> c, val |-> "Ok"]

BranchPanic(c) == [ctx |-> c, val |-> "panic"]

\* The conditional jump on the integer condition r.val, emitted after the
\* compare that returned r.
emit_jmp_cond_intcc(r, taken, not_taken) ==
  IF r.val = "panic" THEN BranchPanic(r.ctx)
  ELSE BranchOk(ctx_emit(r.ctx, Inst_jmp_cond(CC_from_intcc(r.val), taken, not_taken)))

\* lower_fcmp_branch whose second jump of a conjunction tests cc2 itself
\* instead of its inverse.
lower_fcmp_branch_and_uninverted(r, taken, not_taken) ==
  CASE r.val.kind = "Condition" ->
         BranchOk(ctx_emit(r.ctx, Inst_jmp_cond(r.val.cc1, taken, not_taken)))
    [] r.val.kind = "AndConditions" ->
         BranchOk(ctx_emit_all(r.ctx,
           <<Inst_jmp_if(CC_invert(r.val.cc1), not_taken),
             Inst_jmp_cond(r.val.cc2, not_taken, taken)>>))
    [] r.val.kind = "OrConditions" ->
         BranchOk(ctx_emit_all(r.ctx,
           <<Inst_jmp_if(r.val.cc1, taken),
             Inst_jmp_cond(r.val.cc2, taken, not_taken)>>))
    [] OTHER -> BranchPanic(r.ctx)

\* The jumps lower_branch_group emits for the result of emit_fcmp.
lower_fcmp_branch(r, taken, not_taken) ==
  CASE r.val.kind = "Condition" ->
         BranchOk(ctx_emit(r.ctx, Inst_jmp_cond(r.val.cc1, taken, not_taken)))
    [] r.val.kind = "AndConditions" ->
         BranchOk(ctx_emit_all(r.ctx,
           <<Inst_jmp_if(CC_invert(r.val.cc1), not_taken),
             Inst_jmp_cond(CC_invert(r.val.cc2), not_taken, taken)>>))
    [] r.val.kind = "OrConditions" ->
         BranchOk(ctx_emit_all(r.ctx,
           <<Inst_jmp_if(r.val.cc1, taken),
             Inst_jmp_cond(r.val.cc2, taken, not_taken)>>))
    [] OTHER -> BranchPanic(r.ctx)

\* lower_brz_icmp jumping on the condition of the icmp for brz as for brnz.
lower_brz_icmp_uninverted(r, op0, taken, not_taken) ==
  IF r.val = "panic" THEN BranchPanic(r.ctx)
  ELSE BranchOk(ctx_emit(r.ctx, Inst_jmp_cond(CC_from_intcc(r.val), taken, not_taken)))

\* Brz | Brnz whose input is the result of an icmp: the jump emitted after
\* emit_cmp has returned r.
lower_brz_icmp(r, op0, taken, not_taken) ==
  LET cond_code == IF op0 = "Brz" THEN IntCC_inverse(r.val) ELSE r.val
  IN IF r.val = "panic" THEN BranchPanic(r.ctx)
     ELSE BranchOk(ctx_emit(r.ctx, Inst_jmp_cond(CC_from_intcc(cond_code), taken, not_taken)))

\* lower_brz_fcmp testing the condition of the fcmp for brz as for brnz.
lower_brz_fcmp_uninverted(c, op0, fcmp, taken, not_taken) ==
  lower_fcmp_branch(emit_fcmp(c, fcmp, ir.insns[fcmp].cc, "Normal"), taken, not_taken)

\* Brz | Brnz whose input is the result of an fcmp.
lower_brz_fcmp(c, op0, fcmp, taken, not_taken) ==
  LET cc == ir.insns[fcmp].cc
      cond_code == IF op0 = "Brz" THEN FloatCC_inverse(cc) ELSE cc
  IN lower_fcmp_branch(emit_fcmp(c, fcmp, cond_code, "Normal"), taken, not_taken)

\* Brz | Brnz of an I128 value: both halves are tested against zero.
lower_brz_i128(c, op0, branch, taken, not_taken) ==
  LET src == put_input_in_regs(c, InsnInput(branch, 0))
      half_cc == IF op0 = "Brz" THEN "Z" ELSE "NZ"
      comb_op == IF op0 = "Brz" THEN "And8" ELSE "Or8"
      tmp1 == ctx_alloc_tmp(src.ctx, 1)
      tmp2 == ctx_alloc_tmp(tmp1.ctx, 1)
  IN BranchOk(ctx_emit_all(tmp2.ctx,
       <<Inst_cmp_rmi_r(64, RegMemImm_imm(0), src.val[1]),
         Inst_setcc(half_cc, tmp1.val[1]),
         Inst_cmp_rmi_r(64, RegMemImm_imm(0), src.val[2]),
         Inst_setcc(half_cc, tmp2.val[1]),
         Inst_alu_rmi_r(32, comb_op, RegMemImm_reg(tmp1.val[1]), tmp2.val[1]),
         Inst_jmp_cond("NZ", taken, not_taken)>>))

\* Brz | Brnz of an integer, reference or boolean value.
lower_brz_int(c, op0, branch, src_ty, taken, not_taken) ==
  LET src == put_input_in_reg(c, InsnInput(branch, 0))
      cc == IF op0 = "Brz" THEN "Z" ELSE "NZ"
      test_input == IF src_ty = "B1" THEN RegMemImm_imm(1) ELSE RegMemImm_reg(src.val)
  IN IF src_ty # "B1" /\ is_bool_ty(src_ty) = "true" THEN BranchPanic(src.ctx)
     ELSE BranchOk(ctx_emit_all(src.ctx,
            <<Inst_test_rmi_r(OperandSize_from_ty(src_ty), test_input, src.val),
              Inst_jmp_cond(cc, taken, not_taken)>>))

lower_brz(c, op0, branch, taken, not_taken) ==
  LET flag_input == InsnInput(branch, 0)
      src_ty == ctx_input_ty(flag_input)
      icmp == matches_input(flag_input, "Icmp")
      fcmp == matches_input(flag_input, "Fcmp")
  IN IF icmp # None
       THEN lower_brz_icmp(emit_cmp(c, icmp, ir.insns[icmp].cc), op0, taken, not_taken)
     ELSE IF fcmp # None THEN lower_brz_fcmp(c, op0, fcmp, taken, not_taken)
     ELSE IF src_ty = "I128" THEN lower_brz_i128(c, op0, branch, taken, not_taken)
     ELSE IF is_int_or_ref_ty(src_ty) = "panic" THEN BranchPanic(c)
     ELSE IF is_int_or_ref_ty(src_ty) = "true" \/ is_bool_ty(src_ty) = "true"
       THEN lower_brz_int(c, op0, branch, src_ty, taken, not_taken)
     ELSE BranchPanic(c)

lower_bricmp(c, branch, taken, not_taken) ==
  LET src_ty == ctx_input_ty(InsnInput(branch, 0))
      lhs == put_input_in_reg(c, InsnInput(branch, 0))
  IN IF is_int_or_ref_ty(src_ty) = "panic" THEN BranchPanic(c)
     ELSE IF is_int_or_ref_ty(src_ty) = "true" \/ is_bool_ty(src_ty) = "true"
       THEN emit_jmp_cond_intcc(
              emit_cmp_rmi_r(input_to_reg_mem_imm(lhs.ctx, InsnInput(branch, 1)), lhs.val,
                             src_ty, ir.insns[branch].cc),
              taken, not_taken)
     ELSE BranchPanic(c)

\* Brif whose input is an ifcmp_sp of `operand`: the stack pointer is compared.
lower_brif_ifcmp_sp(operand, ty, cond_code, taken, not_taken) ==
  BranchOk(ctx_emit_all(operand.ctx,
    <<Inst_cmp_rmi_r(OperandSize_from_ty(ty), RegMemImm_reg(rsp), operand.val),
      Inst_jmp_cond(CC_from_intcc(cond_code), taken, not_taken)>>))

lower_brif(c, branch, taken, not_taken) ==
  LET flag_input == InsnInput(branch, 0)
      ifcmp == matches_input(flag_input, "Ifcmp")
      ifcmp_sp == matches_input(flag_input, "IfcmpSp")
  IN IF ifcmp # None
       THEN emit_jmp_cond_intcc(emit_cmp(c, ifcmp, ir.insns[branch].cc), taken, not_taken)
     ELSE IF ifcmp_sp # None
       THEN lower_brif_ifcmp_sp(put_input_in_reg(c, InsnInput(ifcmp_sp, 0)),
                                ctx_input_ty(InsnInput(ifcmp_sp, 0)),
                                ir.insns[branch].cc, taken, not_taken)
     ELSE BranchPanic(c)

lower_brff(c, branch, taken, not_taken) ==
  LET ffcmp == matches_input(InsnInput(branch, 0), "Ffcmp")
  IN IF ffcmp # None
       THEN lower_fcmp_branch(emit_fcmp(c, ffcmp, ir.insns[branch].cc, "Normal"),
                              taken, not_taken)
       ELSE BranchPanic(c)

\* lower_br_table bounds-checking against the number of targets, the default
\* included.
lower_br_table_default_counted(idx, ty, targets) ==
  LET jt_size == Len(targets)
      tmp1 == ctx_alloc_tmp(idx.ctx, 1)
      tmp2 == ctx_alloc_tmp(tmp1.ctx, 1)
      cmp_size == IF ty = "I64" THEN 64 ELSE 32
  IN IF idx.val = Panic THEN BranchPanic(idx.ctx)
     ELSE BranchOk(ctx_emit_all(tmp2.ctx,
            <<Inst_imm(64, 0, tmp1.val[1]),
              Inst_cmp_rmi_r(cmp_size, RegMemImm_imm(jt_size), idx.val),
              Inst_JmpTableSeq(idx.val, tmp1.val[1], tmp2.val[1], targets[1],
                               SubSeq(targets, 2, Len(targets)))>>))

\* lower_br_table zeroing the first temporary after the bounds check.
lower_br_table_zero_after_cmp(idx, ty, targets) ==
  LET jt_size == Len(targets) - 1
      tmp1 == ctx_alloc_tmp(idx.ctx, 1)
      tmp2 == ctx_alloc_tmp(tmp1.ctx, 1)
      cmp_size == IF ty = "I64" THEN 64 ELSE 32
  IN IF idx.val = Panic THEN BranchPanic(idx.ctx)
     ELSE BranchOk(ctx_emit_all(tmp2.ctx,
            <<Inst_cmp_rmi_r(cmp_size, RegMemImm_imm(jt_size), idx.val),
              Inst_imm(64, 0, tmp1.val[1]),
              Inst_JmpTableSeq(idx.val, tmp1.val[1], tmp2.val[1], targets[1],
                               SubSeq(targets, 2, Len(targets)))>>))

\* BrTable, once extend_input_to_reg has put the index of type ty in idx.
lower_br_table(idx, ty, targets) ==
  LET jt_size == Len(targets) - 1
      tmp1 == ctx_alloc_tmp(idx.ctx, 1)
      tmp2 == ctx_alloc_tmp(tmp1.ctx, 1)
      cmp_size == IF ty = "I64" THEN 64 ELSE 32
  IN IF idx.val = Panic THEN BranchPanic(idx.ctx)
     ELSE BranchOk(ctx_emit_all(tmp2.ctx,
            <<Inst_imm(64, 0, tmp1.val[1]),
              Inst_cmp_rmi_r(cmp_size, RegMemImm_imm(jt_size), idx.val),
              Inst_JmpTableSeq(idx.val, tmp1.val[1], tmp2.val[1], targets[1],
                               SubSeq(targets, 2, Len(targets)))>>))

\* A lone jump lowered as a fallthrough.
lower_jump_fallthrough(c, targets) == BranchOk(c)

\* Opcode::Jump alone in its group.
lower_jump(c, targets) == BranchOk(ctx_emit(c, Inst_jmp_known(targets[1])))

lower_branch_group(c, branches, targets) ==
  LET op0 == ir.insns[branches[1]].opcode
      op1 == ir.insns[branches[2]].opcode
  IN IF Len(branches) > 2 THEN BranchPanic(c)
     ELSE IF Len(branches) = 2
       THEN IF op1 # "Jump" THEN BranchPanic(c)
            ELSE CASE op0 \in {"Brz", "Brnz"} ->
                        lower_brz(c, op0, branches[1], targets[1], targets[2])
                   [] op0 = "BrIcmp" -> lower_bricmp(c, branches[1], targets[1], targets[2])
                   [] op0 = "Brif" -> lower_brif(c, branches[1], targets[1], targets[2])
                   [] op0 = "Brff" -> lower_brff(c, branches[1], targets[1], targets[2])
                   [] OTHER -> BranchPanic(c)
     ELSE IF Len(branches) # 1 THEN BranchPanic(c)
     ELSE CASE op0 = "Jump" -> lower_jump(c, targets)
            [] op0 = "BrTable" ->
                 lower_br_table(extend_input_to_reg(c, InsnInput(branches[1], 0), 32),
                                ctx_input_ty(InsnInput(branches[1], 0)), targets)
            [] OTHER -> BranchPanic(c)

-----------------------------------------------------------------------------
(* Lowering of one non-branch instruction: lower_insn_to_regs.  The arms   *)
(* modelled are those of the calls, selectif, the divisions, iconcat and    *)
(* isplit, uunarrow, the moves of the pinned register and raw_bitcast, nop, *)
(* and every arm that only panics.                                          *)

\* regs::rax(), regs::rdx() and regs::pinned_reg().
rax == RegFileSize - 1

rdx == RegFileSize - 2

pinned_reg == RegFileSize - 3

\* Inst::gen_move: a 64-bit register-to-register move for an integer class
\* value, an xmm move for a float or vector.
Inst_gen_move(dst, src, ty) ==
  [op |-> "mov", class |-> IF ty \in {"F32", "F64"} \cup VecTypes THEN "xmm" ELSE "gpr64",
   src |-> src, dst |-> dst]

Inst_cmove(size, cc, src, dst) == [op |-> "cmove", size |-> size, cc |-> cc, src |-> src, dst |-> dst]

Inst_xmm_cmove(ty, cc, src, dst) == [op |-> "xmm_cmove", ty |-> ty, cc |-> cc, src |-> src, dst |-> dst]

Inst_sign_extend_data(size) == [op |-> "sign_extend_data", size |-> size]

Inst_div(size, signed, divisor) ==
  [op |-> "div", size |-> size, signed |-> signed, divisor |-> divisor]

Inst_checked_div_or_rem_seq(kind, size, divisor, tmp) ==
  [op |-> "checked_div_or_rem_seq", kind |-> kind, size |-> size, divisor |-> divisor,
   tmp |-> tmp]

Inst_shift_r(size, kind, amt, dst) ==
  [op |-> "shift_r", size |-> size, kind |-> kind, amt |-> amt, dst |-> dst]

\* An SSE instruction of the uunarrow sequence.
Inst_xmm(sse, src, dst) == [op |-> "xmm", sse |-> sse, src |-> src, dst |-> dst]

\* An instruction of the call sequence the ABI caller emits.
Inst_abi(step, idx, rs) == [op |-> "abi", step |-> step, idx |-> idx, regs |-> rs]

\* The call instruction of the sequence, to the destination the caller was
\* built for.
Inst_abi_call(dest) == [op |-> "abi", step |-> "call", idx |-> 0, regs |-> <<>>, dest |-> dest]

\* Inst::xmm_rm_r_imm: an SSE instruction with an immediate.
Inst_xmm_rm_r_imm(sse, src, dst, imm, size) ==
  [op |-> "xmm_imm", sse |-> sse, src |-> src, dst |-> dst, imm |-> imm, size |-> size]

\* The results of lower_insn_to_regs: Ok(()), Err(e), or a panic with its
\* message; unimplemented!(m) panics with "not implemented: " before m.
InsnOk(c) == [ctx |-> c, val |-> [kind |-> "Ok", msg |-> ""]]

InsnErr(c) == [ctx |-> c, val |-> [kind |-> "Err", msg |-> "CodegenError"]]

InsnPanic(c, msg) == [ctx |-> c, val |-> [kind |-> "panic", msg |-> msg]]

InsnUnimplemented(c, msg) == InsnPanic(c, "not implemented: " \o msg)

\* num_outputs, and get_output_reg of output k: isplit has two results of one
\* register each; every other instruction modelled has at most one.
ctx_num_outputs(i) ==
  IF ir.insns[i].opcode = "Isplit" THEN 2
  ELSE IF ir.insns[i].out_regs = <<>> THEN 0 ELSE 1

get_output_reg(i, k) ==
  IF ir.insns[i].opcode = "Isplit" THEN <<ir.insns[i].out_regs[k + 1]>>
  ELSE ir.insns[i].out_regs

\* isle::lower: the pattern matcher either lowers the instruction, emitting
\* its own instructions, or declines and leaves the context as it was.
isle_lower(c, insn) ==
  IF ir.isle[insn]
    THEN [ctx |-> ctx_emit(c, [op |-> "isle", insn |-> insn]), val |-> "Ok"]
    ELSE [ctx |-> c, val |-> "Err"]

\* emit_moves: one move per register, over the zip of dst, src and the types
\* of the registers of ty.
emit_moves(c, dst, src, ty) ==
  LET n == IF Len(dst) < Len(src) THEN Len(dst) ELSE Len(src)
      m == IF n < NumRegs(ty) THEN n ELSE NumRegs(ty)
  IN ctx_emit_all(c, [k \in 1 .. m |->
                        Inst_gen_move(dst[k], src[k], IF ty = "I128" THEN "I64" ELSE ty)])

\* emit_cmoves: one conditional move per register, of at least 32 bits.
emit_cmoves(c, size, cc, src, dst) ==
  LET per == size \div Len(src)
      sz == IF per < 4 THEN 4 ELSE per
      n == IF Len(dst) < Len(src) THEN Len(dst) ELSE Len(src)
  IN ctx_emit_all(c, [k \in 1 .. n |->
                        Inst_cmove(sz * 8, cc, RegMemImm_reg(src[k]), dst[k])])

\* The tail of the selectif arm with the conditional moves emitted before
\* the moves of the false operand.
selectif_select_cmoves_first(cond, lhs, rhs, dst, ty) ==
  IF cond.val = "panic" THEN InsnPanic(cond.ctx, "emit_cmp")
  ELSE IF is_int_or_ref_ty(ty) = "panic" THEN InsnPanic(cond.ctx, "is_int_or_ref_ty")
  ELSE IF is_int_or_ref_ty(ty) = "true" \/ ty = "I128"
    THEN InsnOk(emit_moves(emit_cmoves(cond.ctx, ty_bytes(ty), CC_from_intcc(cond.val),
                                       lhs, dst), dst, rhs, ty))
  ELSE IF Len(lhs) # 1 \/ Len(dst) # 1 THEN InsnPanic(emit_moves(cond.ctx, dst, rhs, ty), "unwrap")
  ELSE InsnOk(emit_moves(ctx_emit(cond.ctx,
                Inst_xmm_cmove(ty, CC_from_intcc(cond.val), RegMemImm_reg(lhs[1]), dst[1])),
                dst, rhs, ty))

\* The tail of the selectif arm, after emit_cmp returned cond: the moves of
\* the false operand rhs into dst, then the conditional moves of the true
\* operand lhs.
selectif_select(cond, lhs, rhs, dst, ty) ==
  IF cond.val = "panic" THEN InsnPanic(cond.ctx, "emit_cmp")
  ELSE IF is_int_or_ref_ty(ty) = "panic" THEN InsnPanic(cond.ctx, "is_int_or_ref_ty")
  ELSE IF is_int_or_ref_ty(ty) = "true" \/ ty = "I128"
    THEN InsnOk(emit_cmoves(emit_moves(cond.ctx, dst, rhs, ty), ty_bytes(ty),
                            CC_from_intcc(cond.val), lhs, dst))
  ELSE IF Len(lhs) # 1 \/ Len(dst) # 1 THEN InsnPanic(emit_moves(cond.ctx, dst, rhs, ty), "unwrap")
  ELSE InsnOk(ctx_emit(emit_moves(cond.ctx, dst, rhs, ty),
                Inst_xmm_cmove(ty, CC_from_intcc(cond.val), RegMemImm_reg(lhs[1]), dst[1])))

\* The comparison of the selectif arm, emitted after both operands have been
\* resolved in the context rhs.ctx.
selectif_cmp(insn, lhs, rhs) ==
  LET flag == Src(InsnInput(insn, 0))
  IN IF flag.src \notin {"UniqueUse", "Use"} THEN InsnPanic(rhs.ctx, "unwrap")
     ELSE selectif_select(emit_cmp(rhs.ctx, flag.insn, ir.insns[insn].cc), lhs.val, rhs.val,
                          get_output_reg(insn, 0), ctx_output_ty(insn))

selectif_rhs(insn, lhs) == selectif_cmp(insn, lhs, put_input_in_regs(lhs.ctx, InsnInput(insn, 2)))

\* Opcode::Selectif | Opcode::SelectifSpectreGuard.
lower_selectif(c, insn) == selectif_rhs(insn, put_input_in_regs(c, InsnInput(insn, 1)))

DivOrRemKind(op) ==
  CASE op = "Udiv" -> "UnsignedDiv"
    [] op = "Sdiv" -> "SignedDiv"
    [] op = "Urem" -> "UnsignedRem"
    [] op = "Srem" -> "SignedRem"

\* The move of the quotient (rax) or of the remainder (rdx, or ah shifted
\* down for a byte division) into the destination.
divrem_result(c, op, size, input_ty, dst) ==
  IF op \in {"Udiv", "Sdiv"}
    THEN InsnOk(ctx_emit(c, Inst_gen_move(dst, rax, input_ty)))
  ELSE IF size = 8
    THEN InsnOk(ctx_emit_all(c, <<Inst_shift_r(64, "ShiftRightLogical", 8, rax),
                                  Inst_gen_move(dst, rax, input_ty)>>))
  ELSE InsnOk(ctx_emit(c, Inst_gen_move(dst, rdx, input_ty)))

\* The guarded sequence: the divisor is copied to a temporary, rdx is zeroed
\* and one checked_div_or_rem_seq does the checks and the division.
divrem_checked(divisor, op, size, input_ty, dst) ==
  IF divisor.val = Panic THEN InsnPanic(divisor.ctx, "only_reg")
  ELSE LET divisor_copy == ctx_alloc_tmp(divisor.ctx, 1)
           tmp == IF op = "Sdiv" /\ size = 64
                    THEN ctx_alloc_tmp(divisor_copy.ctx, 1)
                    ELSE [ctx |-> divisor_copy.ctx, val |-> <<None>>]
       IN divrem_result(
            ctx_emit_all(tmp.ctx,
              <<Inst_gen_move(divisor_copy.val[1], divisor.val, "I64"),
                Inst_imm(32, 0, rdx),
                Inst_checked_div_or_rem_seq(DivOrRemKind(op), size, divisor_copy.val[1],
                                            tmp.val[1])>>),
            op, size, input_ty, dst)

\* The plain division: the high half is filled and one div or idiv of a
\* register divisor is emitted.
divrem_plain(divisor, op, size, input_ty, dst) ==
  IF divisor.val = Panic THEN InsnPanic(divisor.ctx, "only_reg")
  ELSE divrem_result(
         ctx_emit_all(divisor.ctx,
           <<IF op \in {"Sdiv", "Srem"} THEN Inst_sign_extend_data(size)
             ELSE IF input_ty = "I8" THEN Inst_movzx_rm_r(8, 32, RegMemImm_reg(rax), rax)
             ELSE Inst_imm(64, 0, rdx),
             Inst_div(size, op \in {"Sdiv", "Srem"}, RegMemImm_reg(divisor.val))>>),
         op, size, input_ty, dst)

\* The division arm taking the guarded sequence only when avoid_div_traps is
\* set.
divrem_body_srem_unguarded(dividend, insn, op, input_ty, dst, avoid_div_traps) ==
  IF dividend.val = Panic THEN InsnPanic(dividend.ctx, "only_reg")
  ELSE IF Len(dst) # 1 THEN InsnPanic(dividend.ctx, "unwrap")
  ELSE IF avoid_div_traps
    THEN divrem_checked(
           put_input_in_reg(ctx_emit(dividend.ctx, Inst_gen_move(rax, dividend.val, input_ty)),
                            InsnInput(insn, 1)),
           op, OperandSize_from_ty(input_ty), input_ty, dst[1])
  ELSE divrem_plain(
         put_input_in_reg(ctx_emit(dividend.ctx, Inst_gen_move(rax, dividend.val, input_ty)),
                          InsnInput(insn, 1)),
         op, OperandSize_from_ty(input_ty), input_ty, dst[1])

\* The division arm after the dividend has been resolved: it is moved into
\* rax, then the divisor is resolved and the guarded or the plain sequence
\* follows.
divrem_body(dividend, insn, op, input_ty, dst, avoid_div_traps) ==
  IF dividend.val = Panic THEN InsnPanic(dividend.ctx, "only_reg")
  ELSE IF Len(dst) # 1 THEN InsnPanic(dividend.ctx, "unwrap")
  ELSE IF avoid_div_traps \/ op = "Srem"
    THEN divrem_checked(
           put_input_in_reg(ctx_emit(dividend.ctx, Inst_gen_move(rax, dividend.val, input_ty)),
                            InsnInput(insn, 1)),
           op, OperandSize_from_ty(input_ty), input_ty, dst[1])
  ELSE divrem_plain(
         put_input_in_reg(ctx_emit(dividend.ctx, Inst_gen_move(rax, dividend.val, input_ty)),
                          InsnInput(insn, 1)),
         op, OperandSize_from_ty(input_ty), input_ty, dst[1])

\* Opcode::Udiv | Opcode::Urem | Opcode::Sdiv | Opcode::Srem.
lower_divrem(c, insn, avoid_div_traps) ==
  divrem_body(put_input_in_reg(c, InsnInput(insn, 0)), insn, ir.insns[insn].opcode,
              ctx_input_ty(InsnInput(insn, 0)), get_output_reg(insn, 0), avoid_div_traps)

\* Opcode::Iconcat: the two halves are moved into the registers of the result.
lower_iconcat_hi_first(c, insn) ==
  LET lo == put_input_in_reg(c, InsnInput(insn, 0))
      hi == put_input_in_reg(lo.ctx, InsnInput(insn, 1))
      dst == get_output_reg(insn, 0)
  IN IF ctx_output_ty(insn) # "I128" THEN InsnPanic(c, "assert_eq")
     ELSE IF ctx_input_ty(InsnInput(insn, 0)) # "I64" THEN InsnPanic(c, "assert_eq")
     ELSE IF ctx_input_ty(InsnInput(insn, 1)) # "I64" THEN InsnPanic(c, "assert_eq")
     ELSE InsnOk(ctx_emit_all(hi.ctx, <<Inst_gen_move(dst[1], hi.val, "I64"),
                                        Inst_gen_move(dst[2], lo.val, "I64")>>))

lower_iconcat(c, insn) ==
  LET lo == put_input_in_reg(c, InsnInput(insn, 0))
      hi == put_input_in_reg(lo.ctx, InsnInput(insn, 1))
      dst == get_output_reg(insn, 0)
  IN IF ctx_output_ty(insn) # "I128" THEN InsnPanic(c, "assert_eq")
     ELSE IF ctx_input_ty(InsnInput(insn, 0)) # "I64" THEN InsnPanic(c, "assert_eq")
     ELSE IF ctx_input_ty(InsnInput(insn, 1)) # "I64" THEN InsnPanic(c, "assert_eq")
     ELSE InsnOk(ctx_emit_all(hi.ctx, <<Inst_gen_move(dst[1], lo.val, "I64"),
                                        Inst_gen_move(dst[2], hi.val, "I64")>>))

\* Opcode::Isplit: the two registers of the input are moved into the results.
lower_isplit(c, insn) ==
  LET src == put_input_in_regs(c, InsnInput(insn, 0))
      dst_lo == get_output_reg(insn, 0)
      dst_hi == get_output_reg(insn, 1)
  IN IF ctx_input_ty(InsnInput(insn, 0)) # "I128" THEN InsnPanic(c, "assert_eq")
     ELSE IF ctx_output_ty(insn) # "I64" THEN InsnPanic(c, "assert_eq")
     ELSE InsnOk(ctx_emit_all(src.ctx, <<Inst_gen_move(dst_lo[1], src.val[1], "I64"),
                                         Inst_gen_move(dst_hi[1], src.val[2], "I64")>>))

\* Opcode::Uunarrow: the sequence for an input that is an fcvt_to_uint_sat;
\* for any other input a line is printed and nothing is emitted.
lower_uunarrow(c, insn) ==
  LET fcvt_inst == matches_input(InsnInput(insn, 0), "FcvtToUintSat")
      input_ty == ctx_input_ty(InsnInput(fcvt_inst, 0))
      src == put_input_in_reg(c, InsnInput(fcvt_inst, 0))
      dst == get_output_reg(insn, 0)[1]
      tmp1 == ctx_alloc_tmp(src.ctx, 1)
      umax_mask == ctx_alloc_tmp(tmp1.ctx, 1)
      uint_mask == ctx_alloc_tmp(umax_mask.ctx, 1)
  IN IF fcvt_inst = None THEN InsnOk(c)
     ELSE IF src.val = Panic THEN InsnPanic(src.ctx, "only_reg")
     ELSE IF Len(get_output_reg(insn, 0)) # 1 THEN InsnPanic(src.ctx, "unwrap")
     ELSE InsnOk(ctx_emit_all(uint_mask.ctx,
            <<Inst_gen_move(dst, src.val, input_ty),
              Inst_xmm("Xorpd", RegMemImm_reg(tmp1.val[1]), tmp1.val[1]),
              Inst_xmm("Maxpd", RegMemImm_reg(tmp1.val[1]), dst),
              Inst_xmm("LoadConst", "UMAX_MASK", umax_mask.val[1]),
              Inst_xmm("Minpd", RegMemImm_reg(umax_mask.val[1]), dst),
              Inst_xmm("Roundpd", RegMemImm_reg(dst), dst),
              Inst_xmm("LoadConst", "UINT_MASK", uint_mask.val[1]),
              Inst_xmm("Addpd", RegMemImm_reg(uint_mask.val[1]), dst),
              Inst_xmm("Shufps", RegMemImm_reg(tmp1.val[1]), dst)>>))

\* Opcode::GetPinnedReg, Opcode::SetPinnedReg and Opcode::RawBitcast: one move.
lower_get_pinned_reg(c, insn) ==
  IF Len(get_output_reg(insn, 0)) # 1 THEN InsnPanic(c, "unwrap")
  ELSE InsnOk(ctx_emit(c, Inst_gen_move(get_output_reg(insn, 0)[1], pinned_reg, "I64")))

lower_set_pinned_reg(src) ==
  IF src.val = Panic THEN InsnPanic(src.ctx, "only_reg")
  ELSE InsnOk(ctx_emit(src.ctx, Inst_gen_move(pinned_reg, src.val, "I64")))

lower_raw_bitcast(src, insn) ==
  IF src.val = Panic THEN InsnPanic(src.ctx, "only_reg")
  ELSE IF Len(get_output_reg(insn, 0)) # 1 THEN InsnPanic(src.ctx, "unwrap")
  ELSE InsnOk(ctx_emit(src.ctx,
                Inst_gen_move(get_output_reg(insn, 0)[1], src.val, ctx_output_ty(insn))))

\* The copies of the arguments from..n of a call into their ABI locations
\* (get_copy_to_arg_order is modelled as the order of the arguments); first
\* is the number of leading inputs that are not arguments.
RECURSIVE abi_copy_args(_, _, _, _, _)
abi_copy_args(c, insn, first, i, n) ==
  IF i >= n THEN c
  ELSE LET arg_regs == put_input_in_regs(c, InsnInput(insn, first + i))
       IN abi_copy_args(ctx_emit(arg_regs.ctx, Inst_abi("copy_regs_to_arg", i, arg_regs.val)),
                        insn, first, i + 1, n)

\* The call sequence emitted once the ABI caller exists, for the arguments
\* that follow the first `first` inputs: the stack adjustment, the argument
\* copies, the call, the copies of the results and the stack re-adjustment.
abi_call_sequence(c, insn, first, dest) ==
  InsnOk(ctx_emit_all(
    abi_copy_args(ctx_emit(c, Inst_abi("stack_pre_adjust", 0, <<>>)), insn, first, 0,
                  ctx_num_inputs(insn) - first),
    <<Inst_abi_call(dest)>>
      \o [k \in 1 .. ctx_num_outputs(insn) |->
            Inst_abi("copy_retval_to_regs", k - 1, get_output_reg(insn, k - 1))]
      \o <<Inst_abi("stack_post_adjust", 0, <<>>)>>))

\* The construction of the caller failing only after the stack adjustment
\* has been emitted.
abi_caller_or_err_after_adjust(c, insn, first) ==
  IF ctx_num_inputs(insn) - first # ir.sig.params THEN InsnPanic(c, "assert_eq")
  ELSE IF ctx_num_outputs(insn) # ir.sig.returns THEN InsnPanic(c, "assert_eq")
  ELSE IF ~ir.abi_ok THEN InsnErr(ctx_emit(c, Inst_abi("stack_pre_adjust", 0, <<>>)))
  ELSE abi_call_sequence(c, insn, first, IF first = 0 THEN "call_target" ELSE "ptr")

\* The signature is checked against the instruction, then
\* X64ABICaller::from_func / from_ptr gives the caller, or the error that `?`
\* returns, and the call sequence follows.
abi_caller_or_err(c, insn, first) ==
  IF ctx_num_inputs(insn) - first # ir.sig.params THEN InsnPanic(c, "assert_eq")
  ELSE IF ctx_num_outputs(insn) # ir.sig.returns THEN InsnPanic(c, "assert_eq")
  ELSE IF ~ir.abi_ok THEN InsnErr(c)
  ELSE abi_call_sequence(c, insn, first, IF first = 0 THEN "call_target" ELSE "ptr")

\* Opcode::CallIndirect, after the callee pointer has been resolved.
lower_call_indirect(ptr, insn) ==
  IF ptr.val = Panic THEN InsnPanic(ptr.ctx, "only_reg")
  ELSE abi_caller_or_err(ptr.ctx, insn, 1)

\* Opcode::Call | Opcode::CallIndirect.
lower_call(c, insn) ==
  IF ir.insns[insn].opcode = "Call"
    THEN abi_caller_or_err(c, insn, 0)
    ELSE lower_call_indirect(put_input_in_reg(c, InsnInput(insn, 0)), insn)

\* emit_vm_call: the caller of the libcall is built from the instruction's
\* own signature, or the error returned; then the call sequence.
emit_vm_call(c, libcall, insn) ==
  IF ~ir.abi_ok THEN InsnErr(c) ELSE abi_call_sequence(c, insn, 0, libcall)

\* The rounding mode with trunc rounding down.
RoundImm_of_trunc_down(op) ==
  CASE op = "Ceil" -> "RoundUp"
    [] op = "Floor" -> "RoundDown"
    [] op = "Nearest" -> "RoundNearest"
    [] op = "Trunc" -> "RoundDown"

\* The rounding mode of the opcode.
RoundImm_of(op) ==
  CASE op = "Ceil" -> "RoundUp"
    [] op = "Floor" -> "RoundDown"
    [] op = "Nearest" -> "RoundNearest"
    [] op = "Trunc" -> "RoundZero"

\* The round instruction of the type.
RoundSseOpcode(ty) ==
  CASE ty = "F32" -> "Roundss"
    [] ty = "F64" -> "Roundsd"
    [] ty = "F32X4" -> "Roundps"
    [] ty = "F64X2" -> "Roundpd"

\* The runtime library routine of the opcode and the type.
RoundLibCall(op, ty) ==
  CASE op = "Ceil" /\ ty = "F32" -> "CeilF32"
    [] op = "Ceil" /\ ty = "F64" -> "CeilF64"
    [] op = "Floor" /\ ty = "F32" -> "FloorF32"
    [] op = "Floor" /\ ty = "F64" -> "FloorF64"
    [] op = "Nearest" /\ ty = "F32" -> "NearestF32"
    [] op = "Nearest" /\ ty = "F64" -> "NearestF64"
    [] op = "Trunc" /\ ty = "F32" -> "TruncF32"
    [] op = "Trunc" /\ ty = "F64" -> "TruncF64"

\* Opcode::Ceil | Floor | Nearest | Trunc: one round instruction with
\* SSE4.1, a libcall without.
lower_round(c, insn, use_sse41) ==
  LET ty == ctx_output_ty(insn)
      op == ir.insns[insn].opcode
      src == input_to_reg_mem(c, InsnInput(insn, 0))
  IN IF use_sse41
       THEN IF ty \notin {"F32", "F64", "F32X4", "F64X2"} THEN InsnPanic(c, "unexpected type")
            ELSE IF src.val.kind = "panic" THEN InsnPanic(src.ctx, "unwrap")
            ELSE InsnOk(ctx_emit(src.ctx,
                   Inst_xmm_rm_r_imm(RoundSseOpcode(ty), src.val, get_output_reg(insn, 0)[1],
                                     RoundImm_of(op), 32)))
     ELSE IF ty \notin {"F32", "F64"} THEN InsnPanic(c, "unexpected type/opcode")
     ELSE emit_vm_call(c, RoundLibCall(op, ty), insn)

\* The opcodes of the first arm of the match, and Select and Fma: lowered by
\* ISLE, unreachable in the hand-written dispatcher.
ImplementedInIsle ==
  {"Iconst", "Bconst", "F32const", "F64const", "Null", "Iadd", "IaddIfcout", "SaddSat",
   "UaddSat", "Isub", "SsubSat", "UsubSat", "AvgRound", "Band", "Bor", "Bxor", "Imul",
   "BandNot", "Iabs", "Imax", "Umax", "Imin", "Umin", "Bnot", "Bitselect", "Vselect",
   "Ushr", "Sshr", "Ishl", "Rotl", "Rotr", "Ineg", "Trap", "ResumableTrap", "Clz", "Ctz",
   "Popcnt", "Bitrev", "IsNull", "IsInvalid", "Uextend", "Sextend", "Breduce", "Bextend",
   "Ireduce", "Bint", "Debugtrap", "WideningPairwiseDotProductS", "Fadd", "Fsub", "Fmul",
   "Fdiv", "Fmin", "Fmax", "FminPseudo", "FmaxPseudo", "Sqrt", "Fpromote", "FvpromoteLow",
   "Fdemote", "Fvdemote", "Icmp", "Fcmp", "Load", "Uload8", "Sload8", "Uload16", "Sload16",
   "Uload32", "Sload32", "Sload8x8", "Uload8x8", "Sload16x4", "Uload16x4", "Sload32x2",
   "Uload32x2", "Store", "Istore8", "Istore16", "Istore32", "AtomicRmw", "AtomicCas",
   "AtomicLoad", "AtomicStore", "Fence", "FuncAddr", "SymbolValue", "FallthroughReturn",
   "Return", "Select", "Fma"}

\* The arms that are unimplemented!(..), with their messages.
UnimplementedOpcodes ==
  {"DynamicStackAddr", "ExtractVector", "Cls", "BorNot", "BxorNot", "Bmask", "Trueif",
   "Trueff", "ConstAddr", "Vsplit", "Vconcat"}

lower_unimplemented(c, op) ==
  InsnUnimplemented(c,
    CASE op = "DynamicStackAddr" -> "DynamicStackAddr"
      [] op = "ExtractVector" -> "ExtractVector not supported"
      [] op = "Cls" -> "Cls not supported"
      [] op \in {"BorNot", "BxorNot"} -> "or-not / xor-not opcodes not implemented"
      [] op = "Bmask" -> "Bmask not implemented"
      [] op \in {"Trueif", "Trueff"} -> "trueif / trueff not implemented"
      [] op = "ConstAddr" -> "ConstAddr not implemented"
      [] op \in {"Vsplit", "Vconcat"} -> "Vector split/concat ops not implemented.")

\* The opcodes legalization or verification removes.
AluImmOrCarryOpcodes ==
  {"IaddImm", "ImulImm", "UdivImm", "SdivImm", "UremImm", "SremImm", "IrsubImm", "IaddCin",
   "IaddIfcin", "IaddCout", "IaddCarry", "IaddIfcarry", "IsubBin", "IsubIfbin", "IsubBout",
   "IsubIfbout", "IsubBorrow", "IsubIfborrow", "BandImm", "BorImm", "BxorImm", "RotlImm",
   "RotrImm", "IshlImm", "UshrImm", "SshrImm", "IcmpImm", "IfcmpImm"}

BranchOpcodes == {"Jump", "Brz", "Brnz", "BrIcmp", "Brif", "Brff", "BrTable"}

LegalizedOpcodes ==
  {"Ifcmp", "Ffcmp", "StackLoad", "StackStore", "DynamicStackStore", "DynamicStackLoad",
   "GlobalValue", "HeapAddr", "TableAddr", "IfcmpSp", "Copy", "Trapz", "Trapnz",
   "ResumableTrapnz"} \cup AluImmOrCarryOpcodes \cup BranchOpcodes

\* The arms of the legalized opcodes with Copy lowered as nothing.
lower_legalized_copy_is_nop(c, op) ==
  IF op = "Copy" THEN InsnOk(c)
  ELSE InsnPanic(c, "Should never reach this opcode")

\* The arms that panic!(..) for an opcode that must not reach the lowering.
lower_legalized(c, op) ==
  InsnPanic(c,
    CASE op \in {"Ifcmp", "Ffcmp"} -> "Should never reach ifcmp/ffcmp as isel root!"
      [] op \in AluImmOrCarryOpcodes -> "ALU+imm and ALU+carry ops should not appear here!"
      [] op \in {"StackLoad", "StackStore", "DynamicStackStore", "DynamicStackLoad"} ->
           "Direct stack memory access not supported; should have been legalized"
      [] op = "GlobalValue" -> "global_value should have been removed by legalization!"
      [] op = "HeapAddr" -> "heap_addr should have been removed by legalization!"
      [] op = "TableAddr" -> "table_addr should have been removed by legalization!"
      [] op \in {"IfcmpSp", "Copy"} -> "Unused opcode should not be encountered."
      [] op \in {"Trapz", "Trapnz", "ResumableTrapnz"} ->
           "trapz / trapnz / resumable_trapnz should have been removed by legalization!"
      [] op \in BranchOpcodes -> "Branch opcode reached non-branch lowering logic!")

\* Inst::TrapIf { trap_code, cc }.
Inst_TrapIf(trap_code, cc) == [op |-> "trap_if", trap_code |-> trap_code, cc |-> cc]

\* The trap on the integer condition cond.val, emitted after the compare
\* that returned cond.
trapif_trap(cond, trap_code) ==
  IF cond.val = "panic" THEN InsnPanic(cond.ctx, "emit_cmp")
  ELSE InsnOk(ctx_emit(cond.ctx, Inst_TrapIf(trap_code, CC_from_intcc(cond.val))))

\* The traps the Trapff arm emits for the result r of emit_fcmp.
trapff_traps(r, trap_code) ==
  CASE r.val.kind = "Condition" ->
         InsnOk(ctx_emit(r.ctx, Inst_TrapIf(trap_code, r.val.cc1)))
    [] r.val.kind = "AndConditions" ->
         LET tmp == ctx_alloc_tmp(r.ctx, 1)
             tmp2 == ctx_alloc_tmp(tmp.ctx, 1)
         IN InsnOk(ctx_emit_all(tmp2.ctx,
              <<Inst_setcc(r.val.cc1, tmp.val[1]),
                Inst_setcc(r.val.cc2, tmp2.val[1]),
                Inst_alu_rmi_r(32, "And", RegMemImm_reg(tmp.val[1]), tmp2.val[1]),
                Inst_TrapIf(trap_code, "NZ")>>))
    [] r.val.kind = "OrConditions" ->
         InsnOk(ctx_emit_all(r.ctx,
           <<Inst_TrapIf(trap_code, r.val.cc1), Inst_TrapIf(trap_code, r.val.cc2)>>))
    [] r.val.kind = "InvertedEqualOrConditions" ->
         InsnPanic(r.ctx, "internal error: entered unreachable code")
    [] OTHER -> InsnPanic(r.ctx, "emit_fcmp")

\* Opcode::Trapif | Opcode::Trapff.
lower_trap(c, insn, op) ==
  LET trap_code == ir.insns[insn].trap_code
      cond_code == ir.insns[insn].cc
  IN IF matches_input(InsnInput(insn, 0), "IaddIfcout") # None
       THEN InsnOk(ctx_emit(c, Inst_TrapIf(trap_code, CC_from_intcc(cond_code))))
     ELSE IF op = "Trapif"
       THEN IF matches_input(InsnInput(insn, 0), "Ifcmp") = None THEN InsnPanic(c, "unwrap")
            ELSE trapif_trap(emit_cmp(c, matches_input(InsnInput(insn, 0), "Ifcmp"), cond_code),
                             trap_code)
     ELSE IF matches_input(InsnInput(insn, 0), "Ffcmp") = None THEN InsnPanic(c, "unwrap")
     ELSE trapff_traps(emit_fcmp(c, matches_input(InsnInput(insn, 0), "Ffcmp"), cond_code,
                                 "Normal"), trap_code)

\* The opcodes whose arm is modelled.
ModelledOpcodes ==
  ImplementedInIsle \cup UnimplementedOpcodes \cup LegalizedOpcodes
    \cup {"Call", "CallIndirect", "Selectif", "SelectifSpectreGuard", "Udiv", "Urem", "Sdiv",
          "Srem", "Iconcat", "Isplit", "Uunarrow", "GetPinnedReg", "SetPinnedReg",
          "RawBitcast", "Ceil", "Floor", "Nearest", "Trunc", "Trapif", "Trapff", "Nop"}

\* The match on the opcode: the hand-written dispatcher.
lower_insn_match(c, insn, op) ==
  CASE op \in ImplementedInIsle -> InsnPanic(c, "internal error: entered unreachable code: implemented in ISLE")
    [] op \in {"Call", "CallIndirect"} -> lower_call(c, insn)
    [] op \in {"Ceil", "Floor", "Nearest", "Trunc"} -> lower_round(c, insn, ir.use_sse41)
    [] op \in {"Trapif", "Trapff"} -> lower_trap(c, insn, op)
    [] op \in {"Selectif", "SelectifSpectreGuard"} -> lower_selectif(c, insn)
    [] op \in {"Udiv", "Urem", "Sdiv", "Srem"} -> lower_divrem(c, insn, ir.avoid_div_traps)
    [] op = "GetPinnedReg" -> lower_get_pinned_reg(c, insn)
    [] op = "SetPinnedReg" -> lower_set_pinned_reg(put_input_in_reg(c, InsnInput(insn, 0)))
    [] op = "RawBitcast" -> lower_raw_bitcast(put_input_in_reg(c, InsnInput(insn, 0)), insn)
    [] op = "Iconcat" -> lower_iconcat(c, insn)
    [] op = "Isplit" -> lower_isplit(c, insn)
    [] op = "Uunarrow" -> lower_uunarrow(c, insn)
    [] op \in UnimplementedOpcodes -> lower_unimplemented(c, op)
    [] op \in LegalizedOpcodes -> lower_legalized(c, op)
    [] op = "Nop" -> InsnOk(c)

\* The dispatcher entered whatever the pattern matcher answered.
isle_then_match_always(isle, insn) == lower_insn_match(isle.ctx, insn, ir.insns[insn].opcode)

\* lower_insn_to_regs after isle::lower has answered: Ok at once if it
\* lowered the instruction, the match on the opcode otherwise.
isle_then_match(isle, insn) ==
  IF isle.val = "Ok" THEN InsnOk(isle.ctx)
  ELSE lower_insn_match(isle.ctx, insn, ir.insns[insn].opcode)

lower_insn_to_regs(c, insn) == isle_then_match(isle_lower(c, insn), insn)

\* LowerBackend::lower.
LowerBackend_lower(c, ir_inst) == lower_insn_to_regs(c, ir_inst)

-----------------------------------------------------------------------------
(* The machine executing the emitted instructions.                         *)

RECURSIVE BitAnd(_, _, _)
BitAnd(a, b, n) ==
  IF n = 0 THEN 0
  ELSE (IF a % 2 = 1 /\ b % 2 = 1 THEN 1 ELSE 0) + 2 * BitAnd(a \div 2, b \div 2, n - 1)

RECURSIVE BitOr(_, _, _)
BitOr(a, b, n) ==
  IF n = 0 THEN 0
  ELSE (IF a % 2 = 1 \/ b % 2 = 1 THEN 1 ELSE 0) + 2 * BitOr(a \div 2, b \div 2, n - 1)

RECURSIVE PopCount(_, _)
PopCount(a, n) == IF n = 0 THEN 0 ELSE (a % 2) + PopCount(a \div 2, n - 1)

\* PF: the low byte of the result has an even number of 1 bits.
Parity(r) == PopCount(r, ByteBits) % 2 = 0

\* base + (index << shift) + sign-extended displacement.
EffAddr(a, r) ==
  Trunc(r[a.base]
        + (IF a.amode = "ImmRegRegShift" THEN r[a.index] * Pow2(a.shift) ELSE 0)
        + SignExtend(a.simm32, HalfBits, WordBits), WordBits)

\* The memory word at address a.
ReadMem(a) == IF a = ir.mem.at THEN ir.mem.cell ELSE Trunc(ir.mem.cell + 1, WordBits)

\* The value of a register, memory or immediate operand.
ReadOperand(o, r) ==
  CASE o.kind = "reg" -> r[o.reg]
    [] o.kind = "imm" -> SignExtend(o.simm32, HalfBits, WordBits)
    [] o.kind = "mem" -> ReadMem(EffAddr(o.addr, r))

\* Flags of `cmp src, dst`: those of dst - src at n bits.
CmpFlags(a, b, n) ==
  LET x == Trunc(a, n)
      y == Trunc(b, n)
      d == Trunc(x - y + Pow2(n), n)
      neg(v) == v >= Pow2(n - 1)
  IN [zf |-> d = 0, cf |-> x < y, sf |-> neg(d),
      of |-> (neg(x) # neg(y)) /\ (neg(d) # neg(x)), pf |-> Parity(d)]

\* Flags of a logical operation with result d at n bits.
LogicFlags(d, n) ==
  [zf |-> d = 0, cf |-> FALSE, sf |-> d >= Pow2(n - 1), of |-> FALSE, pf |-> Parity(d)]

\* Bits an ALU operation works on: And8 and Or8 are byte operations.
AluBits(i) == IF i.alu \in {"And8", "Or8"} THEN ByteBits ELSE SBits(i.size)

AluResult(i, r) ==
  LET n == AluBits(i)
      a == Trunc(r[i.dst], n)
      b == Trunc(ReadOperand(i.src, r), n)
  IN IF i.alu \in {"And", "And8"} THEN BitAnd(a, b, n) ELSE BitOr(a, b, n)

\* Outcome of ucomiss/ucomisd of dst against src; a float is a number and 0
\* stands for NaN.
FloatFlags(a, b) ==
  CASE a = 0 \/ b = 0 -> [zf |-> TRUE, pf |-> TRUE, cf |-> TRUE, sf |-> FALSE, of |-> FALSE]
    [] a # 0 /\ b # 0 /\ a < b ->
         [zf |-> FALSE, pf |-> FALSE, cf |-> TRUE, sf |-> FALSE, of |-> FALSE]
    [] a # 0 /\ b # 0 /\ a = b ->
         [zf |-> TRUE, pf |-> FALSE, cf |-> FALSE, sf |-> FALSE, of |-> FALSE]
    [] OTHER -> [zf |-> FALSE, pf |-> FALSE, cf |-> FALSE, sf |-> FALSE, of |-> FALSE]

NextRegs(i, r, f) ==
  CASE i.op = "setcc" ->
         [r EXCEPT ![i.dst] = @ - Trunc(@, ByteBits) + (IF CCHolds(i.cc, f) THEN 1 ELSE 0)]
    [] i.op = "alu" ->
         [r EXCEPT ![i.dst] =
            IF i.alu \in {"And8", "Or8"}
              THEN @ - Trunc(@, ByteBits) + AluResult(i, r)
              ELSE AluResult(i, r)]
    [] i.op = "imm" -> [r EXCEPT ![i.dst] = Trunc(i.simm64, SBits(i.size))]
    [] i.op = "gpr_to_xmm" -> [r EXCEPT ![i.dst] = r[i.src]]
    [] i.op = "movzx" -> [r EXCEPT ![i.dst] = Trunc(ReadOperand(i.src, r), SBits(i.from))]
    [] i.op = "mov" -> [r EXCEPT ![i.dst] = r[i.src]]
    [] i.op = "cmove" ->
         [r EXCEPT ![i.dst] =
            Trunc(IF CCHolds(i.cc, f) THEN ReadOperand(i.src, r) ELSE @, SBits(i.size))]
    [] i.op = "xmm_cmove" ->
         [r EXCEPT ![i.dst] = IF CCHolds(i.cc, f) THEN ReadOperand(i.src, r) ELSE @]
    [] OTHER -> r

NextFlags(i, r, f) ==
  CASE i.op = "cmp" -> CmpFlags(r[i.dst], ReadOperand(i.src, r), SBits(i.size))
    [] i.op = "test" ->
         LogicFlags(BitAnd(Trunc(r[i.dst], SBits(i.size)),
                           Trunc(ReadOperand(i.src, r), SBits(i.size)), SBits(i.size)),
                    SBits(i.size))
    [] i.op = "alu" -> LogicFlags(AluResult(i, r), AluBits(i))
    [] i.op = "xmm_cmp" ->
         FloatFlags(Trunc(r[i.dst], SBits(i.size)), Trunc(ReadOperand(i.src, r), SBits(i.size)))
    [] OTHER -> f

\* Where control goes when a TrapIf fires: out of the function.
TrapLabel == 0 - 3

\* Where control goes: 0 while it falls through to the next instruction; a
\* jump table indexed past its end jumps to no label of the function (-1).
NextLabel(i, r, f) ==
  CASE i.op = "jmp_known" -> i.taken
    [] i.op = "trap_if" -> IF CCHolds(i.cc, f) THEN TrapLabel ELSE 0
    [] i.op = "jmp_if" -> IF CCHolds(i.cc, f) THEN i.taken ELSE 0
    [] i.op = "jmp_cond" -> IF CCHolds(i.cc, f) THEN i.taken ELSE i.not_taken
    [] i.op = "jmp_table_seq" ->
         IF CCHolds("NB", f) THEN i.default_target
         ELSE IF Trunc(r[i.idx], HalfBits) < Len(i.targets)
           THEN i.targets[Trunc(r[i.idx], HalfBits) + 1]
         ELSE 0 - 1
    [] OTHER -> 0

\* The machine executes the next emitted instruction.
Exec ==
  /\ phase = "lowered"
  /\ mpc <= Len(insts)
  /\ label = 0
  /\ regs' = NextRegs(insts[mpc], regs, flags)
  /\ flags' = NextFlags(insts[mpc], regs, flags)
  /\ label' = NextLabel(insts[mpc], regs, flags)
  /\ mpc' = mpc + 1
  /\ UNCHANGED <<ir, insts, next_vreg, sunk, ret, phase>>
  /\ UNCHANGED component_vars

Halted == phase = "lowered" /\ (mpc > Len(insts) \/ label # 0)

-----------------------------------------------------------------------------
(* IR scenarios.  An instruction is a record of its opcode, its inputs and  *)
(* the payload the lowering reads; an input is what                         *)
(* get_input_as_source_or_const, input_ty and put_input_in_regs answer for  *)
(* it, with the value it has at run time.                                   *)

\* Boundary values of an n-bit integer.
Boundary(n) == {0, 1, Pow2(n - 1) - 1, Pow2(n - 1), Pow2(n) - 2, Pow2(n) - 1}

FirstTmp == NumValueRegs + 1

Insn(opcode, out_ty, aligned, offset, inputs, out_regs) ==
  [opcode |-> opcode, num_inputs |-> Len(inputs), out_ty |-> out_ty,
   aligned |-> aligned, offset |-> offset, inputs |-> inputs, out_regs |-> out_regs,
   cc |-> ""]

\* An instruction carrying a condition code (cond_code / fp_cond_code).
CondInsn(opcode, cc, inputs, out_regs) ==
  [Insn(opcode, "B1", FALSE, 0, inputs, out_regs) EXCEPT !.cc = cc]

Input(ty, constant, src, idx, insn, rs, val) ==
  [ty |-> ty, constant |-> constant, src |-> src, idx |-> idx, insn |-> insn,
   regs |-> rs, val |-> val]

\* A value that is a block parameter: no producer, held in registers rs.
ParamInput(ty, rs, val) == Input(ty, None, "None", 0, 0, rs, val)

NoInsn == Insn("Nop", "I64", FALSE, 0, <<>>, <<>>)

\* The forms an integer operand of type ty takes: a register value, an
\* iconst, or the result of a load used once (load1) or more (loadN).
RegOperandsOver(ty, vals) ==
  IF ty = "I128"
    THEN {[form |-> "reg", val |-> <<lo, hi>>] : lo \in vals, hi \in vals}
    ELSE {[form |-> "reg", val |-> <<Trunc(v, SBits(ty_bits(ty)))>>] : v \in vals}

RegOperands(ty) ==
  RegOperandsOver(ty, IF ty = "I128" THEN HalfVals ELSE Boundary(SBits(ty_bits(ty))))

ConstOperandsOver(ty, vals) ==
  {[form |-> "const", k |-> k,
    val |-> IF ty = "I128" THEN <<k, 0>> ELSE <<Trunc(k, SBits(ty_bits(ty)))>>] :
     k \in vals}

ConstOperands(ty) == ConstOperandsOver(ty, IF ty = "I128" THEN HalfVals ELSE Boundary(WordBits))

LoadOperandsOver(ty, forms, cells, addrs, offsets) ==
  {[form |-> f, val |-> <<Trunc(v, SBits(ty_bits(ty)))>>, cell |-> v, addr |-> a,
    offset |-> o] :
     f \in forms, v \in cells, a \in addrs, o \in offsets}

LoadOperands(ty) ==
  LoadOperandsOver(ty, {"load1", "loadN"}, {1, AllOnes - 1}, {0, AllOnes},
                   {0, 1, Pow2(HalfBits) - 1})

\* An operand that is not there.
NoOperand == [form |-> "none", val |-> <<0>>]

\* The producer of an operand, and the operand as an instruction input.
OperandInsn(od, ty, addr_reg, rs) ==
  CASE od.form = "const" -> Insn("Iconst", ty, FALSE, 0, <<>>, rs)
    [] od.form \in {"load1", "loadN"} ->
         Insn("Load", ty, FALSE, od.offset,
              <<ParamInput("I64", <<addr_reg>>, <<od.addr>>)>>, rs)
    [] OTHER -> NoInsn

OperandInput(od, ty, insn, rs) ==
  CASE od.form = "const" -> Input(ty, od.k, "Use", 0, insn, rs, od.val)
    [] od.form = "load1" -> Input(ty, None, "UniqueUse", 0, insn, rs, od.val)
    [] od.form = "loadN" -> Input(ty, None, "Use", 0, insn, rs, od.val)
    [] OTHER -> ParamInput(ty, rs, od.val)

\* Memory holding `cell` where the load of od reads and another value elsewhere.
OperandMem(od) ==
  IF od.form \in {"load1", "loadN"}
    THEN [at |-> Trunc(od.addr + SignExtend(od.offset, HalfBits, WordBits), WordBits),
          cell |-> od.cell]
    ELSE [at |-> 0, cell |-> 0]

\* v in the low n bits of a register whose other bits hold those of junk.
WithJunk(v, n, junk) == Trunc(v, n) + (junk - Trunc(junk, n))

\* The register file before the emitted code runs: the registers of the
\* values computed by other instructions hold those values; every other
\* register holds junk.
OperandRegs(od, ty, rs, junk, r) ==
  IF od.form \in {"reg", "load1", "loadN"}
    THEN [k \in DOMAIN r |->
            IF \E n \in 1 .. Len(rs) : rs[n] = k
              THEN WithJunk(od.val[CHOOSE n \in 1 .. Len(rs) : rs[n] = k],
                            SBits(ty_bits(ty)), junk)
              ELSE r[k]]
    ELSE r

JunkRegs(junk) == [k \in 1 .. RegFileSize |-> junk]

\* The registers of a value of type ty, from register b on.
RegList(ty, b) == IF ty = "I128" THEN <<b, b + 1>> ELSE <<b>>

\* icmp cc lhs, rhs: instruction 1, with the producers of its operands.
IcmpScenario(ty, cc, l, r, junk) ==
  [kind |-> "icmp", ty |-> ty, cc |-> cc, l |-> l, r |-> r, junk |-> junk,
   insns |-> <<CondInsn("Icmp", cc,
                        <<OperandInput(l, ty, 2, RegList(ty, 1)),
                          OperandInput(r, ty, 3, RegList(ty, 3))>>, <<6>>),
               OperandInsn(l, ty, 5, RegList(ty, 1)),
               OperandInsn(r, ty, 5, RegList(ty, 3))>>,
   mem |-> OperandMem(r)]

-----------------------------------------------------------------------------
(* Integer comparisons: emit_cmp is called for an icmp and the machine     *)
(* then runs the emitted sequence.                                          *)

CmpTypes == {"I8", "I32", "I64", "I128"}

CmpScenarios ==
  {IcmpScenario(s.ty, s.cc, s.l, s.r, s.junk) :
     s \in UNION {[ty : {ty}, cc : IntCCs, junk : JunkVals,
                   l : RegOperands(ty) \cup ConstOperands(ty),
                   r : RegOperands(ty) \cup ConstOperands(ty)
                         \cup (IF ty = "I128" THEN {} ELSE LoadOperands(ty))] :
                  ty \in CmpTypes}}

\* No component value is at hand while instructions are lowered.
NoComponent == memory = 0 /\ list = <<>> /\ cur = 0 /\ stored = <<>>

InitLowering ==
  /\ insts = <<>>
  /\ next_vreg = FirstTmp
  /\ sunk = <<>>
  /\ ret = "none"
  /\ flags = [zf |-> FALSE, cf |-> FALSE, sf |-> FALSE, of |-> FALSE, pf |-> FALSE]
  /\ mpc = 1
  /\ label = 0
  /\ phase = "start"
  /\ NoComponent

\* The register file of a scenario with operands ir.l (registers 1, 2) and
\* ir.r (registers 3, 4) of type ir.ty; register 5 holds the address of a load.
ScenarioRegs ==
  OperandRegs(ir.r, ir.ty, RegList(ir.ty, 3), ir.junk,
    OperandRegs(ir.l, ir.ty, RegList(ir.ty, 1), ir.junk,
      IF ir.r.form \in {"load1", "loadN"} THEN [JunkRegs(ir.junk) EXCEPT ![5] = ir.r.addr]
      ELSE IF ir.l.form \in {"load1", "loadN"} THEN [JunkRegs(ir.junk) EXCEPT ![5] = ir.l.addr]
      ELSE JunkRegs(ir.junk)))

InitCmp ==
  /\ ir \in CmpScenarios
  /\ regs = ScenarioRegs
  /\ InitLowering

\* A sunk instruction is not emitted: its result registers are never written.
Unwritten(r, sk) ==
  [k \in DOMAIN r |->
     IF \E n \in 1 .. Len(sk) : \E m \in 1 .. Len(ir.insns[sk[n]].out_regs) :
          ir.insns[sk[n]].out_regs[m] = k
       THEN ir.junk ELSE r[k]]

\* The lowering returns: its context becomes the state.
Lowered(r) ==
  /\ insts' = r.ctx.insts
  /\ next_vreg' = r.ctx.next_vreg
  /\ sunk' = r.ctx.sunk
  /\ ret' = r.val
  /\ regs' = Unwritten(regs, r.ctx.sunk)

LowerIcmp ==
  /\ phase = "start"
  /\ ir.kind = "icmp"
  /\ \E r \in {emit_cmp(Ctx, 1, ir.insns[1].cc)} :
       /\ Lowered(r)
       /\ phase' = IF r.val = "panic" THEN "panicked" ELSE "lowered"
  /\ UNCHANGED <<ir, flags, mpc, label>>
  /\ UNCHANGED component_vars

NextCmp == LowerIcmp \/ Exec

SpecCmp == InitCmp /\ [][NextCmp]_vars

-----------------------------------------------------------------------------
(* Claims about emit_cmp.                                                  *)

\* The 128-bit value of a (lo, hi) pair of machine words.
Val128(v) == v[1] + v[2] * WordMod

IcmpRef == IntCCHolds(ir.cc, IF ir.ty = "I128" THEN Val128(ir.l.val) ELSE ir.l.val[1],
                      IF ir.ty = "I128" THEN Val128(ir.r.val) ELSE ir.r.val[1],
                      IF ir.ty = "I128" THEN 2 * WordBits ELSE SBits(ty_bits(ir.ty)))

\* C1: for Equal, NotEqual and the eight ordered relations on I128 operands,
\* the register written by the final `and 1` of the emitted sequence holds
\* exactly 1 if the 128-bit comparison holds and exactly 0 otherwise, whatever
\* the temporaries held before, emit_cmp returns NotEqual, and that condition
\* tested on the final flags has the same truth value.
C1_I128CompareMatchesReference ==
  (ir.kind = "icmp" /\ ir.ty = "I128" /\ ir.cc \in {"Equal", "NotEqual"} \cup OrderedIntCC
     /\ Halted)
    => /\ ret = "NotEqual"
       /\ regs[insts[Len(insts)].dst] = (IF IcmpRef THEN 1 ELSE 0)
       /\ CCHolds(CC_from_intcc(ret), flags) <=> IcmpRef

\* C1 witness: lhs = (hi 0, lo 0), rhs = (hi 0, lo 1) compared signed-less-than
\* with temporaries that held all ones; the sequence has run to its end and
\* left 1.
C1_Witness ==
  /\ ir.kind = "icmp" /\ ir.ty = "I128" /\ ir.cc = "SignedLessThan"
  /\ ir.l.form = "reg" /\ ir.l.val = <<0, 0>>
  /\ ir.r.form = "reg" /\ ir.r.val = <<1, 0>>
  /\ Halted
  /\ Len(insts) = 8
  /\ regs[RegFileSize] = AllOnes
  /\ regs[insts[Len(insts)].dst] = 1

\* C2: for every operand type but I128, emit_cmp emits exactly one compare,
\* the last instruction, whose destination is the register of the left-hand
\* side and whose source is the right-hand side, and returns the condition
\* code it was given; testing that condition on the flags of the compare
\* gives the truth value of `lhs cc rhs`.
C2_NarrowCompareSwapsOperands ==
  (ir.kind = "icmp" /\ ir.ty # "I128" /\ phase = "lowered")
    => /\ ret = ir.cc
       /\ Cardinality({k \in 1 .. Len(insts) : insts[k].op = "cmp"}) = 1
       /\ insts[Len(insts)].op = "cmp"
       /\ insts[Len(insts)].size = ty_bits(ir.ty)
       /\ ir.l.form = "reg" => insts[Len(insts)].dst = 1
       /\ ir.r.form \in {"reg", "loadN"} => insts[Len(insts)].src = RegMemImm_reg(3)
       /\ Halted => (CCHolds(CC_from_intcc(ret), flags) <=> IcmpRef)

\* C2 witness: a 64-bit signed-less-than whose right-hand side is a merged
\* load and whose truth value is TRUE, after the compare has run.
C2_Witness ==
  /\ ir.kind = "icmp" /\ ir.ty = "I64" /\ ir.cc = "SignedLessThan"
  /\ ir.r.form = "load1"
  /\ Halted
  /\ insts[Len(insts)].src.kind = "mem"
  /\ IcmpRef
  /\ CCHolds("L", flags)

-----------------------------------------------------------------------------
(* Float comparisons: emit_fcmp is called for an fcmp and the machine then *)
(* runs the compare.                                                        *)

\* Floats: 0 is NaN, the others are ordered as numbers.
FloatVals == 0 .. 3

FloatOperandsL(ty) == RegOperandsOver(ty, FloatVals) \cup ConstOperandsOver(ty, {0, 2})

FloatOperandsR(ty) ==
  FloatOperandsL(ty) \cup LoadOperandsOver(ty, {"load1", "loadN"}, {0, 2}, {AllOnes}, {0, 1})

\* opcode cc lhs, rhs (Fcmp or Ffcmp): instruction 1, with its producers.
FcmpScenario(opcode, ty, cc, l, r, junk, spec) ==
  [kind |-> "fcmp", ty |-> ty, cc |-> cc, l |-> l, r |-> r, junk |-> junk, spec |-> spec,
   insns |-> <<CondInsn(opcode, cc,
                        <<OperandInput(l, ty, 2, RegList(ty, 1)),
                          OperandInput(r, ty, 3, RegList(ty, 3))>>, <<6>>),
               OperandInsn(l, ty, 5, RegList(ty, 1)),
               OperandInsn(r, ty, 5, RegList(ty, 3))>>,
   mem |-> OperandMem(r)]

FcmpScenarios ==
  {FcmpScenario("Fcmp", s.ty, s.cc, s.l, s.r, s.junk, s.spec) :
     s \in UNION {[ty : {ty}, cc : FloatCCs, junk : JunkVals, spec : {"Normal", "InvertEqual"},
                   l : FloatOperandsL(ty), r : FloatOperandsR(ty)] :
                  ty \in {"F32", "F64"}}}

InitFcmp ==
  /\ ir \in FcmpScenarios
  /\ regs = ScenarioRegs
  /\ InitLowering

LowerFcmp ==
  /\ phase = "start"
  /\ ir.kind = "fcmp"
  /\ \E r \in {emit_fcmp(Ctx, 1, ir.insns[1].cc, ir.spec)} :
       /\ Lowered(r)
       /\ phase' = IF r.val.kind = "panic" THEN "panicked" ELSE "lowered"
  /\ UNCHANGED <<ir, flags, mpc, label>>
  /\ UNCHANGED component_vars

NextFcmp == LowerFcmp \/ Exec

SpecFcmp == InitFcmp /\ [][NextFcmp]_vars

\* What an FcmpCondResult says of the flags f.
EvalFcmp(res, f) ==
  CASE res.kind = "Condition" -> CCHolds(res.cc1, f)
    [] res.kind = "AndConditions" -> CCHolds(res.cc1, f) /\ CCHolds(res.cc2, f)
    [] res.kind = "OrConditions" -> CCHolds(res.cc1, f) \/ CCHolds(res.cc2, f)
    [] res.kind = "InvertedEqualOrConditions" ->
         ~(CCHolds(res.cc1, f) \/ CCHolds(res.cc2, f))

FcmpRef == FloatCCHolds(ir.cc, ir.l.val[1], ir.r.val[1])

\* C3: with FcmpSpec::Normal, emit_fcmp returns AndConditions(NP, Z) for
\* Equal, OrConditions(P, NZ) for NotEqual and a single Condition for every
\* other FloatCC, and after the emitted compare has run the result holds of
\* the flags exactly when the IEEE predicate holds of the operands, for every
\* outcome of the compare (unordered, less, equal, greater).
C3_FcmpResultEvaluatesCorrectly ==
  (ir.kind = "fcmp" /\ ir.spec = "Normal" /\ phase = "lowered")
    => /\ ir.cc = "Equal" => ret = FcmpCondResult("AndConditions", "NP", "Z")
       /\ ir.cc = "NotEqual" => ret = FcmpCondResult("OrConditions", "P", "NZ")
       /\ ir.cc \notin {"Equal", "NotEqual"} => ret.kind = "Condition"
       /\ Halted => (EvalFcmp(ret, flags) <=> FcmpRef)

\* C3 witness: Equal on a NaN right-hand side: the compare has run, ZF is set
\* and yet the AndConditions result is false.
C3_Witness ==
  /\ ir.kind = "fcmp" /\ ir.spec = "Normal" /\ ir.cc = "Equal"
  /\ ir.r.val[1] = 0
  /\ Halted
  /\ ret.kind = "AndConditions"
  /\ flags.zf /\ flags.pf
  /\ ~EvalFcmp(ret, flags)

-----------------------------------------------------------------------------
(* Branch groups: lower_branch_group is called for the branches ending a   *)
(* block and the machine then runs the emitted code to a label.             *)

\* The conditional branch (instruction 4) of a two-branch group whose input
\* is the result of the comparison that is instruction 1.
BranchOnCmp(op0, cc, use) ==
  CondInsn(op0, cc, <<Input("B1", None, use, 0, 1, <<6>>, <<0>>)>>, <<>>)

JumpInsn == Insn("Jump", "I64", FALSE, 0, <<>>, <<>>)

\* A group [op0 v, jump] where v is the result of `cmp_op cc l, r`.
CmpBranchScenario(fam, cmp_op, op0, cc, use, ty, l, r, junk) ==
  [kind |-> "branch", fam |-> fam, op0 |-> op0, ty |-> ty, cc |-> cc, l |-> l, r |-> r,
   junk |-> junk,
   insns |-> <<CondInsn(cmp_op, cc,
                        IF cmp_op = "IfcmpSp"
                          THEN <<OperandInput(l, ty, 2, RegList(ty, 1))>>
                          ELSE <<OperandInput(l, ty, 2, RegList(ty, 1)),
                                 OperandInput(r, ty, 3, RegList(ty, 3))>>, <<6>>),
               OperandInsn(l, ty, 5, RegList(ty, 1)),
               OperandInsn(r, ty, 5, RegList(ty, 3)),
               BranchOnCmp(op0, cc, use), JumpInsn>>,
   mem |-> OperandMem(r), branches |-> <<4, 5>>, targets |-> <<10, 11>>]

\* A group whose first branch takes the operands l and r itself: brz/brnz of
\* a value, br_icmp, br_table, or an opcode the group may not hold.
ValueBranchScenario(fam, op0, op1, cc, ty, l, r, junk, ntargets) ==
  [kind |-> "branch", fam |-> fam, op0 |-> op0, ty |-> ty, cc |-> cc, l |-> l, r |-> r,
   junk |-> junk,
   insns |-> <<NoInsn,
               OperandInsn(l, ty, 5, RegList(ty, 1)),
               OperandInsn(r, ty, 5, RegList(ty, 3)),
               CondInsn(op0, cc,
                        IF r.form = "none"
                          THEN <<OperandInput(l, ty, 2, RegList(ty, 1))>>
                          ELSE <<OperandInput(l, ty, 2, RegList(ty, 1)),
                                 OperandInput(r, ty, 3, RegList(ty, 3))>>, <<>>),
               Insn(op1, "I64", FALSE, 0, <<>>, <<>>)>>,
   mem |-> OperandMem(IF r.form = "none" THEN l ELSE r),
   branches |-> IF op1 = "" THEN <<4>> ELSE <<4, 5>>,
   targets |-> [k \in 1 .. ntargets |-> 9 + k]]

BranchIntL(ty) ==
  IF ty = "I128" THEN RegOperandsOver(ty, {0, AllOnes}) ELSE RegOperands(ty)

BranchIntR(ty) ==
  IF ty = "I128" THEN RegOperandsOver(ty, {0, AllOnes})
  ELSE RegOperands(ty) \cup ConstOperandsOver(ty, {1, AllOnes})

IcmpBranchScenarios ==
  {CmpBranchScenario("icmp", "Icmp", s.op0, s.cc, s.use, s.ty, s.l, s.r, s.junk) :
     s \in UNION {[ty : {ty}, op0 : {"Brz", "Brnz"}, cc : IntCCs, use : {"UniqueUse", "Use"},
                   junk : {AllOnes}, l : BranchIntL(ty), r : BranchIntR(ty)] :
                  ty \in {"I32", "I64", "I128"}}}

BrifScenarios ==
  {CmpBranchScenario("brif", s.cmp_op, "Brif", s.cc, "UniqueUse", "I64", s.l, s.r, 0) :
     s \in [cmp_op : {"Ifcmp", "IfcmpSp", "Icmp"}, cc : IntCCs,
            l : RegOperandsOver("I64", {0, AllOnes}),
            r : RegOperandsOver("I64", {1})]}

FcmpBranchScenarios ==
  {CmpBranchScenario(s.fam[1], s.fam[2], s.fam[3], s.cc, s.use, s.ty, s.l, s.r, s.junk) :
     s \in UNION {[ty : {ty}, cc : FloatCCs, junk : {AllOnes}, use : {"UniqueUse", "Use"},
                   fam : {<<"fcmp", "Fcmp", "Brz">>, <<"fcmp", "Fcmp", "Brnz">>,
                          <<"ffcmp", "Ffcmp", "Brff">>, <<"ffcmp", "Fcmp", "Brff">>},
                   l : RegOperandsOver(ty, FloatVals),
                   r : RegOperandsOver(ty, FloatVals)
                         \cup LoadOperandsOver(ty, {"load1"}, {0, 2}, {AllOnes}, {1})] :
                  ty \in {"F32", "F64"}}}

ValueBranchScenarios ==
  {ValueBranchScenario("value", s.op0, "Jump", "", s.ty, s.l, NoOperand, s.junk, 2) :
     s \in UNION {[ty : {ty}, op0 : {"Brz", "Brnz"}, junk : JunkVals,
                   l : IF ty = "I128" THEN RegOperandsOver(ty, {0, 1})
                       ELSE RegOperandsOver(ty, {0, 1, 2}) \cup ConstOperandsOver(ty, {0, 2})] :
                  ty \in {"B1", "I8", "I32", "I64", "I128", "B8", "F64", "R32"}}}

BrIcmpScenarios ==
  {ValueBranchScenario("bricmp", "BrIcmp", "Jump", s.cc, s.ty, s.l, s.r, AllOnes, 2) :
     s \in UNION {[ty : {ty}, cc : IntCCs, l : RegOperandsOver(ty, {0, 1, AllOnes}),
                   r : RegOperandsOver(ty, {0, AllOnes}) \cup ConstOperandsOver(ty, {1})] :
                  ty \in {"I32", "I64", "F64"}}}

\* Groups the verifier does not let through, and the unconditional
\* terminators of a one-branch group.
OtherBranchScenarios ==
  {ValueBranchScenario("other", s.op[1], s.op[2], "", "I64", s.l, NoOperand, 0,
                       IF s.op[2] = "" THEN 1 ELSE 2) :
     s \in [op : {<<"Brz", "Return">>, <<"Jump", "Jump">>, <<"Jump", "">>, <<"Return", "">>,
                  <<"Trap", "">>},
            l : RegOperandsOver("I64", {0, 1})]}

BrTableScenarios ==
  {ValueBranchScenario("brtable", "BrTable", "", "", s.ty, s.l, NoOperand, s.junk, s.n + 1) :
     s \in UNION {[ty : {ty}, n : 0 .. MaxTable, junk : JunkVals,
                   l : RegOperandsOver(ty, 0 .. MaxTable + 1)
                         \cup ConstOperandsOver(ty, {0, MaxTable - 1, MaxTable + 1})
                         \cup LoadOperandsOver(ty, {"load1", "loadN"},
                                               {MaxTable - 1, MaxTable + 1}, {0}, {1})] :
                  ty \in {"I8", "I32", "I64"}}}

BranchScenarios ==
  IcmpBranchScenarios \cup BrifScenarios \cup FcmpBranchScenarios \cup ValueBranchScenarios
    \cup BrIcmpScenarios \cup OtherBranchScenarios \cup BrTableScenarios

InitBranch ==
  /\ ir \in BranchScenarios
  /\ regs = ScenarioRegs
  /\ InitLowering

LowerBranchGroup ==
  /\ phase = "start"
  /\ ir.kind = "branch"
  /\ \E r \in {lower_branch_group(Ctx, ir.branches, ir.targets)} :
       /\ Lowered(r)
       /\ phase' = IF r.val = "panic" THEN "panicked" ELSE "lowered"
  /\ UNCHANGED <<ir, flags, mpc, label>>
  /\ UNCHANGED component_vars

NextBranch == LowerBranchGroup \/ Exec

SpecBranch == InitBranch /\ [][NextBranch]_vars

-----------------------------------------------------------------------------
(* Claims about lower_branch_group.                                        *)

IsJump(i) == i.op \in {"jmp_known", "jmp_if", "jmp_cond", "jmp_table_seq"}

\* The jump instructions of the emitted sequence, in order.
BranchJumps == SelectSeq(insts, IsJump)

FlagStates == [zf : BOOLEAN, cf : BOOLEAN, sf : BOOLEAN, of : BOOLEAN, pf : BOOLEAN]

\* The label a sequence of jumps leaves to under the flags f; 0 if none is taken.
RECURSIVE JumpDest(_, _)
JumpDest(js, f) ==
  IF js = <<>> THEN 0
  ELSE IF NextLabel(Head(js), regs, f) # 0 THEN NextLabel(Head(js), regs, f)
  ELSE JumpDest(Tail(js), f)

\* The float condition the branch tests: brz tests the inverse of its fcmp.
BranchFloatCC == IF ir.op0 = "Brz" THEN FloatCC_inverse(ir.cc) ELSE ir.cc

\* The FcmpCondResult emit_fcmp hands lower_branch_group for that condition.
BranchFcmpResult == emit_fcmp(Ctx, 1, BranchFloatCC, "Normal").val

\* C4: for a branch on a float comparison (brz/brnz of an fcmp, brff of an
\* ffcmp) the emitted sequence ends with two jumps when emit_fcmp returned
\* AndConditions or OrConditions and with exactly one conditional jump when it
\* returned a single Condition; under every state of the flags the jumps leave
\* to `taken` iff cc1 and cc2 both hold (AndConditions), iff cc1 or cc2 holds
\* (OrConditions), iff cc1 holds (Condition), and to `not_taken` otherwise;
\* and the machine running the sequence ends at that label.
C4_CompoundFloatJumpsReachRightLabel ==
  (ir.kind = "branch" /\ ir.fam \in {"fcmp", "ffcmp"} /\ phase = "lowered")
    => /\ BranchFcmpResult.kind \in {"Condition", "AndConditions", "OrConditions"}
       /\ BranchFcmpResult.kind = "Condition"
            => /\ Len(BranchJumps) = 1
               /\ BranchJumps[1].op = "jmp_cond"
       /\ BranchFcmpResult.kind # "Condition"
            => /\ Len(BranchJumps) = 2
               /\ BranchJumps[1].op = "jmp_if"
               /\ BranchJumps[2].op = "jmp_cond"
       /\ BranchJumps = SubSeq(insts, Len(insts) - Len(BranchJumps) + 1, Len(insts))
       /\ \A f \in FlagStates :
            JumpDest(BranchJumps, f)
              = (IF EvalFcmp(BranchFcmpResult, f) THEN ir.targets[1] ELSE ir.targets[2])
       /\ Halted
            => label = (IF EvalFcmp(BranchFcmpResult, flags)
                          THEN ir.targets[1] ELSE ir.targets[2])

\* C4 witness: brnz of `fcmp eq x, NaN`: the two jumps of the conjunction
\* (NP, Z) have run with ZF and PF set and control is at not_taken.
C4_Witness ==
  /\ ir.kind = "branch" /\ ir.fam = "fcmp" /\ ir.op0 = "Brnz" /\ ir.cc = "Equal"
  /\ ir.r.val[1] = 0
  /\ Halted
  /\ BranchFcmpResult = FcmpCondResult("AndConditions", "NP", "Z")
  /\ Len(BranchJumps) = 2
  /\ flags.zf /\ flags.pf
  /\ label = ir.targets[2]

\* C5: for [brz v | brnz v, jump] with v = icmp cc a, b on I32 or I64 the
\* emitted sequence holds exactly one compare, with src = b and dst = a, and
\* exactly one jump, the conditional jump that ends the sequence right after
\* the compare, with taken = targets[0], not_taken = targets[1] and the
\* condition inverse(cc) for brz, cc for brnz; no unconditional jump is
\* emitted, and the machine ends at `taken` iff the branch is to be taken.
C5_BrzIcmpOneCompareOneJump ==
  (ir.kind = "branch" /\ ir.fam = "icmp" /\ ir.ty # "I128" /\ phase = "lowered")
    => /\ Len(insts) >= 2
       /\ Cardinality({k \in 1 .. Len(insts) : insts[k].op = "cmp"}) = 1
       /\ Cardinality({k \in 1 .. Len(insts) : IsJump(insts[k])}) = 1
       /\ insts[Len(insts) - 1].op = "cmp"
       /\ insts[Len(insts) - 1].size = ty_bits(ir.ty)
       /\ ir.l.form = "reg" => insts[Len(insts) - 1].dst = 1
       /\ ir.r.form = "reg" => insts[Len(insts) - 1].src = RegMemImm_reg(3)
       /\ ir.r.form = "const" => insts[Len(insts) - 1].src.kind = "imm"
       /\ insts[Len(insts)]
            = Inst_jmp_cond(CC_from_intcc(IF ir.op0 = "Brz" THEN IntCC_inverse(ir.cc)
                                          ELSE ir.cc),
                            ir.targets[1], ir.targets[2])
       /\ Halted
            => label = (IF IcmpRef <=> ir.op0 = "Brnz" THEN ir.targets[1] ELSE ir.targets[2])

\* C5 witness: v2 = icmp slt v0, v1; brz v2, block1; jump block2 with v0 < v1:
\* the compare and the one jump, on "not less", have run and control is at
\* the target of the jump.
C5_Witness ==
  /\ ir.kind = "branch" /\ ir.fam = "icmp" /\ ir.ty = "I64" /\ ir.op0 = "Brz"
  /\ ir.cc = "SignedLessThan"
  /\ ir.l.form = "reg" /\ ir.r.form = "reg"
  /\ IcmpRef
  /\ Halted
  /\ Len(insts) = 2
  /\ insts[2].cc = CC_from_intcc("SignedGreaterThanOrEqual")
  /\ label = ir.targets[2]

\* C6: for a br_table with targets [default, t1 .. tn] the sequence ends with
\* a compare of the index with the immediate n = targets.len() - 1 and a
\* JmpTableSeq on the same index register whose default_target is targets[0]
\* and whose table is t1 .. tn in order; the machine ends at the default label
\* when the index is >= n and at targets[i + 1] when the index is i < n.
C6_BrTableBoundsCheckAndTargets ==
  (ir.kind = "branch" /\ ir.fam = "brtable" /\ phase = "lowered")
    => /\ Len(insts) >= 3
       /\ insts[Len(insts) - 1].op = "cmp"
       /\ insts[Len(insts) - 1].src = RegMemImm_imm(Len(ir.targets) - 1)
       /\ insts[Len(insts)].op = "jmp_table_seq"
       /\ insts[Len(insts)].idx = insts[Len(insts) - 1].dst
       /\ insts[Len(insts)].default_target = ir.targets[1]
       /\ Len(insts[Len(insts)].targets) = Len(ir.targets) - 1
       /\ \A k \in 1 .. Len(ir.targets) - 1 : insts[Len(insts)].targets[k] = ir.targets[k + 1]
       /\ Halted
            => label = (IF ir.l.val[1] >= Len(ir.targets) - 1 THEN ir.targets[1]
                        ELSE ir.targets[ir.l.val[1] + 2])

\* C6 witness: a table of MaxTable entries and the index MaxTable - 1: the
\* machine has gone to the last entry of the table.
C6_Witness ==
  /\ ir.kind = "branch" /\ ir.fam = "brtable" /\ ir.ty = "I32"
  /\ Len(ir.targets) = MaxTable + 1
  /\ ir.l.val[1] = MaxTable - 1
  /\ Halted
  /\ label = ir.targets[MaxTable + 1]

-----------------------------------------------------------------------------
(* Operand resolution: the resolvers are called, up to MaxUses times, on   *)
(* input 0 of a consumer (instruction 1) whose producer is instruction 2.   *)
(* The address of a load is input 0 of instruction 2; instructions 3 and 4  *)
(* compute it.                                                              *)

ConstInput(ty, k, insn) == Input(ty, k, "Use", 0, insn, <<>>, <<0>>)

\* The address computations lower_to_amode tells apart: a plain value, an
\* iadd of two values, of a small or large shift, of a constant, or of a
\* zero-extended constant, on either side.
AddrShapes ==
  {<<"param", 0, 0>>, <<"regs", 0, 0>>}
    \cup {<<"shl", side, amt>> : side \in {0, 1}, amt \in {2, 4}}
    \cup {<<"const", side, k>> : side \in {0, 1}, k \in {1, Pow2(HalfBits - 1) - 1}}
    \cup {<<"uext", side, k>> : side \in {0, 1}, k \in {1}}

\* The operand of the iadd (instruction 3) that the shape sh is about, and
\* the instruction 4 that produces it.
AddrLeaf(sh) ==
  CASE sh[1] = "shl" -> Input("I64", None, "UniqueUse", 0, 4, <<3>>, <<0>>)
    [] sh[1] = "const" -> ConstInput("I64", sh[3], 4)
    [] sh[1] = "uext" -> Input("I64", None, "UniqueUse", 0, 4, <<3>>, <<0>>)
    [] OTHER -> ParamInput("I64", <<3>>, <<0>>)

AddrLeafInsn(sh) ==
  CASE sh[1] = "shl" ->
         Insn("Ishl", "I64", FALSE, 0,
              <<ParamInput("I64", <<6>>, <<0>>), ConstInput("I64", sh[3], 0)>>, <<3>>)
    [] sh[1] = "const" -> Insn("Iconst", "I64", FALSE, 0, <<>>, <<3>>)
    [] sh[1] = "uext" ->
         Insn("Uextend", "I64", FALSE, 0, <<ConstInput("I32", sh[3], 0)>>, <<3>>)
    [] OTHER -> NoInsn

AddrInput(sh) ==
  IF sh[1] = "param" THEN ParamInput("I64", <<5>>, <<0>>)
  ELSE Input("I64", None, "UniqueUse", 0, 3, <<5>>, <<0>>)

AddrInsn(sh) ==
  IF sh[1] = "param" THEN NoInsn
  ELSE Insn("Iadd", "I64", FALSE, 0,
            IF sh[2] = 0 THEN <<AddrLeaf(sh), ParamInput("I64", <<4>>, <<0>>)>>
            ELSE <<ParamInput("I64", <<4>>, <<0>>), AddrLeaf(sh)>>, <<5>>)

\* A consumer whose input 0 is `input`, produced by `producer`.
OperandScenario(fam, input, producer, sh) ==
  [kind |-> "operand", fam |-> fam, ty |-> input.ty,
   insns |-> <<Insn("Consumer", input.ty, FALSE, 0, <<input>>, <<>>), producer,
               AddrInsn(sh), AddrLeafInsn(sh)>>]

ConstTypes == {"I8", "I16", "I32", "I64", "F32", "F64", "I128"}

ConstScenarios ==
  {OperandScenario("const", ConstInput(s.ty, s.k, 2),
                   Insn("Iconst", s.ty, FALSE, 0, <<>>, <<>>), <<"param", 0, 0>>) :
     s \in [ty : ConstTypes, k : Words]}

ParamScenarios ==
  {OperandScenario("param", ParamInput(ty, RegList(ty, 1), <<0>>), NoInsn, <<"param", 0, 0>>) :
     ty \in {"I8", "I32", "I64", "F64", "I128"}}

LoadTypes == {"B1", "I8", "I16", "I32", "I64", "F32", "F64", "I128", "I8X16", "F32X4"}

\* The producers of a value: the plain load, an extending load, a load of
\* two address operands, and an instruction of two results that is no load.
ProducerForms ==
  [opcode : {"Load"}, ty : LoadTypes, idx : {0}]
    \cup [opcode : {"Uload8"}, ty : {"I16", "I32", "I64"}, idx : {0}]
    \cup [opcode : {"LoadComplex"}, ty : LoadTypes, idx : {0}]
    \cup [opcode : {"IaddCout"}, ty : {"I32", "I64"}, idx : {0, 1}]

Producer(f, aligned, sh) ==
  Insn(f.opcode, f.ty, aligned, 1,
       IF f.opcode \in {"Load", "Uload8"} THEN <<AddrInput(sh)>>
       ELSE <<AddrInput(sh), ParamInput("I64", <<4>>, <<0>>)>>,
       RegList(f.ty, 1))

ProducedScenarios ==
  {OperandScenario("produced", Input(s.f.ty, None, s.src, s.f.idx, 2, RegList(s.f.ty, 1), <<0>>),
                   Producer(s.f, s.aligned, s.sh), s.sh) :
     s \in [f : ProducerForms, aligned : BOOLEAN, src : {"UniqueUse", "Use"},
            sh : {<<"param", 0, 0>>}]
             \cup [f : [opcode : {"Load"}, ty : {"I64", "F32X4"}, idx : {0}],
                   aligned : BOOLEAN, src : {"UniqueUse"}, sh : AddrShapes]}

OperandScenarios == ConstScenarios \cup ParamScenarios \cup ProducedScenarios

InitOperand ==
  /\ ir \in OperandScenarios
  /\ regs = JunkRegs(0)
  /\ insts = <<>>
  /\ next_vreg = FirstTmp
  /\ sunk = <<>>
  /\ ret = <<>>
  /\ flags = [zf |-> FALSE, cf |-> FALSE, sf |-> FALSE, of |-> FALSE, pf |-> FALSE]
  /\ mpc = 1
  /\ label = 0
  /\ phase = "start"
  /\ NoComponent

\* The resolver fn, called in the context Ctx, returns r: its context becomes
\* the state and the call is recorded with the registers rs it resolved to.
\* A load that has been sunk is not resolved again.
Resolved(fn, r, rs, panicked) ==
  /\ phase = "start"
  /\ ir.kind = "operand"
  /\ Len(ret) < MaxUses
  /\ sunk = <<>>
  /\ insts' = r.ctx.insts
  /\ next_vreg' = r.ctx.next_vreg
  /\ sunk' = r.ctx.sunk
  /\ ret' = Append(ret, [fn |-> fn, before |-> Ctx, after |-> r.ctx, val |-> r.val,
                         regs |-> rs])
  /\ phase' = IF panicked THEN "panicked" ELSE "start"
  /\ UNCHANGED <<ir, regs, flags, mpc, label>>
  /\ UNCHANGED component_vars

RegsOf(v) == IF v.kind = "reg" THEN <<v.reg>> ELSE <<>>

PutInputInRegs ==
  \E r \in {put_input_in_regs(Ctx, InsnInput(1, 0))} :
    Resolved("put_input_in_regs", r, r.val, FALSE)

PutInputInReg ==
  \E r \in {put_input_in_reg(Ctx, InsnInput(1, 0))} :
    Resolved("put_input_in_reg", r, IF r.val = Panic THEN <<>> ELSE <<r.val>>, r.val = Panic)

InputToRegMem ==
  \E r \in {input_to_reg_mem(Ctx, InsnInput(1, 0))} :
    Resolved("input_to_reg_mem", r, RegsOf(r.val), r.val.kind = "panic")

InputToRegMemImm ==
  \E r \in {input_to_reg_mem_imm(Ctx, InsnInput(1, 0))} :
    Resolved("input_to_reg_mem_imm", r, RegsOf(r.val), r.val.kind = "panic")

NextOperand == PutInputInRegs \/ PutInputInReg \/ InputToRegMem \/ InputToRegMemImm

SpecOperand == InitOperand /\ [][NextOperand]_vars

-----------------------------------------------------------------------------
(* Claims about the operand resolvers.                                      *)

\* The input that is resolved and the instruction that produces it.
OperandInput0 == ir.insns[1].inputs[1]

OperandProducer == ir.insns[2]

LoadOpcodes == {"Load", "Uload8", "LoadComplex"}

\* What a recorded call emitted and what it sunk.
Emitted(rec) == SubSeq(rec.after.insts, Len(rec.before.insts) + 1, Len(rec.after.insts))

SunkBy(rec) == SubSeq(rec.after.sunk, Len(rec.before.sunk) + 1, Len(rec.after.sunk))

\* C7: when the producer of the input is a load (plain, extending, or of two
\* address operands; used once or more; aligned or not) whose result is
\* narrower than 32 bits, every call of input_to_reg_mem and of
\* input_to_reg_mem_imm returns the register of the value, and no call sinks
\* the load.
C7_NarrowLoadsNeverMerged ==
  (ir.kind = "operand" /\ ir.fam = "produced" /\ OperandProducer.opcode \in LoadOpcodes
     /\ ty_bits(OperandProducer.out_ty) < 32)
    => /\ sunk = <<>>
       /\ \A i \in 1 .. Len(ret) :
            ret[i].fn \in {"input_to_reg_mem", "input_to_reg_mem_imm"}
              => /\ ret[i].val = RegMemImm_reg(OperandInput0.regs[1])
                 /\ SunkBy(ret[i]) = <<>>

\* C7 witness: an aligned 8-bit load used once, resolved by input_to_reg_mem
\* and then by input_to_reg_mem_imm, both to its register.
C7_Witness ==
  /\ ir.kind = "operand" /\ ir.fam = "produced"
  /\ OperandProducer.opcode = "Load" /\ OperandProducer.out_ty = "I8"
  /\ OperandProducer.aligned /\ OperandInput0.src = "UniqueUse"
  /\ Len(ret) >= 2
  /\ ret[1].fn = "input_to_reg_mem" /\ ret[1].val = RegMemImm_reg(1)
  /\ ret[2].fn = "input_to_reg_mem_imm" /\ ret[2].val = RegMemImm_reg(1)

\* The condition under which input_to_reg_mem is said to merge a load.
Mergeable ==
  /\ OperandInput0.constant = None
  /\ OperandInput0.src = "UniqueUse"
  /\ OperandInput0.idx = 0
  /\ OperandProducer.opcode = "Load"
  /\ OperandProducer.num_inputs = 1
  /\ ty_bits(OperandProducer.out_ty) >= 32
  /\ ty_is_vector(OperandProducer.out_ty) => OperandProducer.aligned

\* C8: a call of input_to_reg_mem returns a memory operand exactly when the
\* input is no constant and is result 0 of an instruction used once, of opcode
\* Load, with one input, a result of 32 bits or more and, if the result is a
\* vector, the aligned flag; that call sinks the load and nothing else, once.
\* Every other call sinks nothing and returns a register (the value of two
\* registers, which only_reg().unwrap() refuses, aside).
C8_MemoryOperandOnlyForMergeableLoad ==
  ir.kind = "operand"
    => \A i \in 1 .. Len(ret) :
         ret[i].fn = "input_to_reg_mem"
           => /\ ret[i].val.kind = "mem" <=> Mergeable
              /\ ret[i].val.kind = "mem" => SunkBy(ret[i]) = <<2>>
              /\ ret[i].val.kind # "mem"
                   => /\ SunkBy(ret[i]) = <<>>
                      /\ ret[i].val.kind = "reg" <=> NumRegs(OperandInput0.ty) = 1
                      /\ ret[i].val.kind = "reg" /\ OperandInput0.constant = None
                           => /\ ret[i].val.reg = OperandInput0.regs[1]
                              /\ Emitted(ret[i]) = <<>>

\* C8 witness: an unaligned 64-bit load used once, whose address is
\* iadd(ishl(x, 2), y), has been merged: the call returned the memory operand
\* base + index * 4 + offset and sunk the load.
C8_Witness ==
  /\ ir.kind = "operand" /\ Mergeable
  /\ OperandProducer.out_ty = "I64" /\ ~OperandProducer.aligned
  /\ ir.insns[4].opcode = "Ishl"
  /\ Len(ret) = 1
  /\ ret[1].fn = "input_to_reg_mem"
  /\ ret[1].val.kind = "mem"
  /\ ret[1].val.addr.amode = "ImmRegRegShift"
  /\ ret[1].val.addr.shift = 2
  /\ sunk = <<2>>

\* The instructions generate_constant emits for a constant of type ty.
GenLen(ty) == IF ty \in {"I128", "F32", "F64"} THEN 2 ELSE 1

\* The recorded calls that resolved the constant to registers.
ConstResolutions == {i \in 1 .. Len(ret) : ret[i].regs # <<>>}

\* The recorded calls that materialised the constant.
Materialisations == {i \in 1 .. Len(ret) : Emitted(ret[i]) # <<>>}

RegSet(rs) == {rs[k] : k \in 1 .. Len(rs)}

\* C9: when one constant input is resolved again and again, every call of
\* put_input_in_regs, put_input_in_reg and input_to_reg_mem emits its own
\* materialisation sequence (so do the calls of input_to_reg_mem_imm that
\* return a register): the emitted code holds as many sequences as there were
\* such calls, each writes registers allocated by that very call, its first
\* instruction loads the masked constant, and no two calls return the same
\* register.
C9_ConstantMaterialisedAtEveryUse ==
  (ir.kind = "operand" /\ ir.fam = "const")
    => /\ \A i \in 1 .. Len(ret) :
            /\ ret[i].fn # "input_to_reg_mem_imm" => i \in Materialisations
            /\ i \in ConstResolutions => i \in Materialisations
            /\ i \in Materialisations
                 => /\ Len(Emitted(ret[i])) = GenLen(ir.ty)
                    /\ Emitted(ret[i])[1].op = "imm"
                    /\ Emitted(ret[i])[1].simm64
                         = (IF ty_bits(ir.ty) < 64
                              THEN Trunc(OperandInput0.constant, SBits(ty_bits(ir.ty)))
                              ELSE OperandInput0.constant)
                    /\ \A k \in 1 .. Len(Emitted(ret[i])) :
                         Emitted(ret[i])[k].dst
                           \in ret[i].before.next_vreg .. ret[i].after.next_vreg - 1
                    /\ RegSet(ret[i].regs)
                         \subseteq {Emitted(ret[i])[k].dst : k \in 1 .. Len(Emitted(ret[i]))}
       /\ Len(insts) = GenLen(ir.ty) * Cardinality(Materialisations)
       /\ \A i, j \in ConstResolutions :
            i # j => RegSet(ret[i].regs) \cap RegSet(ret[j].regs) = {}

\* C9 witness: a 64-bit constant resolved by put_input_in_regs, by
\* put_input_in_reg and by input_to_reg_mem: three loads of the constant into
\* three different temporaries.
C9_Witness ==
  /\ ir.kind = "operand" /\ ir.fam = "const" /\ ir.ty = "I64"
  /\ Len(ret) >= 3
  /\ ret[1].fn = "put_input_in_regs"
  /\ ret[2].fn = "put_input_in_reg"
  /\ ret[3].fn = "input_to_reg_mem"
  /\ Len(SelectSeq(SubSeq(insts, 1, 3), LAMBDA i : i.op = "imm")) = 3
  /\ Cardinality({ret[1].regs[1], ret[2].regs[1], ret[3].regs[1]}) = 3

\* Whether the constant c can be the immediate of an operation of type ty.
FitsImm(c, ty) ==
  c # None /\ (ty_bytes(ty) # 8 \/ c = SignExtend(Trunc(c, HalfBits), HalfBits, WordBits))

\* C10: a call of input_to_reg_mem_imm returns an immediate exactly when the
\* input is a constant c and its type is not 8 bytes wide or c is the
\* sign-extension to 64 bits of its low 32 bits; the immediate is the low 32
\* bits of c, nothing is emitted, and for an 8-byte type the sign-extension of
\* the immediate is c.  Every other call returns what input_to_reg_mem returns
\* in the same context.
C10_ImmediateIffSignExtendable ==
  ir.kind = "operand"
    => \A i \in 1 .. Len(ret) :
         ret[i].fn = "input_to_reg_mem_imm"
           => /\ ret[i].val.kind = "imm" <=> FitsImm(OperandInput0.constant, OperandInput0.ty)
              /\ ret[i].val.kind = "imm"
                   => /\ ret[i].val.simm32 = Trunc(OperandInput0.constant, HalfBits)
                      /\ ret[i].after = ret[i].before
                      /\ ty_bytes(OperandInput0.ty) = 8
                           => SignExtend(ret[i].val.simm32, HalfBits, WordBits)
                                = OperandInput0.constant
              /\ ret[i].val.kind # "imm"
                   => [ctx |-> ret[i].after, val |-> ret[i].val]
                        = input_to_reg_mem(ret[i].before, InsnInput(1, 0))

\* C10 witness: the 64-bit constant -1 returned as the immediate of all ones
\* on 32 bits, with nothing emitted.
C10_Witness ==
  /\ ir.kind = "operand" /\ ir.fam = "const" /\ ir.ty = "I64"
  /\ OperandInput0.constant = AllOnes
  /\ Len(ret) = 1
  /\ ret[1].fn = "input_to_reg_mem_imm"
  /\ ret[1].val = RegMemImm_imm(Pow2(HalfBits) - 1)
  /\ insts = <<>>

-----------------------------------------------------------------------------
(* Addressing modes: lower_to_amode is called on the address of a load     *)
(* (instruction 1, input 0).  The address is a plain value or an iadd       *)
(* (instruction 2) of two operands produced by instructions 3 and 4; the    *)
(* machine then runs the instructions the call emitted.                     *)

\* The forms an operand of the iadd takes: a value in a register, a shift
\* left by a constant or by a value, an iconst, and the zero-extension of a
\* constant or of a value.
AmodeOperands ==
  {[form |-> "reg", val |-> v] : v \in {1, AllOnes - 1}}
    \cup {[form |-> "shl", amt |-> a, z |-> z, src |-> "UniqueUse"] :
            a \in 0 .. 4, z \in {1, AllOnes}}
    \cup {[form |-> "shl", amt |-> 2, z |-> 1, src |-> "Use"],
          [form |-> "shlreg", amt |-> 2, z |-> 1]}
    \cup {[form |-> "const", k |-> k] : k \in Boundary(WordBits)}
    \cup {[form |-> "uext", k |-> k, from |-> ty] :
            k \in {1, Pow2(HalfBits) - 1, AllOnes}, ty \in {"I8", "I32"}}
    \cup {[form |-> "uextreg", val |-> 1, from |-> "I32"]}

\* The value of the operand at run time.
AmodeOperandVal(od) ==
  CASE od.form \in {"shl", "shlreg"} -> Trunc(od.z * Pow2(od.amt), WordBits)
    [] od.form = "const" -> od.k
    [] od.form = "uext" -> Trunc(od.k, SBits(ty_bits(od.from)))
    [] OTHER -> od.val

\* Operand i of the iadd: its value is in register i + 1, its producer is
\* instruction i + 3 and the value the producer works on is in register i + 3.
AmodeOperandInput(od, i) ==
  CASE od.form = "reg" -> ParamInput("I64", <<i + 1>>, <<od.val>>)
    [] od.form = "const" -> Input("I64", od.k, "Use", 0, i + 3, <<i + 1>>, <<od.k>>)
    [] od.form = "shl" ->
         Input("I64", None, od.src, 0, i + 3, <<i + 1>>, <<AmodeOperandVal(od)>>)
    [] OTHER ->
         Input("I64", None, "UniqueUse", 0, i + 3, <<i + 1>>, <<AmodeOperandVal(od)>>)

AmodeOperandInsn(od, i) ==
  CASE od.form = "const" -> Insn("Iconst", "I64", FALSE, 0, <<>>, <<i + 1>>)
    [] od.form = "shl" ->
         Insn("Ishl", "I64", FALSE, 0,
              <<ParamInput("I64", <<i + 3>>, <<od.z>>), ConstInput("I64", od.amt, 0)>>,
              <<i + 1>>)
    [] od.form = "shlreg" ->
         Insn("Ishl", "I64", FALSE, 0,
              <<ParamInput("I64", <<i + 3>>, <<od.z>>), ParamInput("I64", <<6>>, <<od.amt>>)>>,
              <<i + 1>>)
    [] od.form = "uext" ->
         Insn("Uextend", "I64", FALSE, 0, <<ConstInput(od.from, od.k, 0)>>, <<i + 1>>)
    [] od.form = "uextreg" ->
         Insn("Uextend", "I64", FALSE, 0, <<ParamInput(od.from, <<i + 3>>, <<od.val>>)>>,
              <<i + 1>>)
    [] OTHER -> NoInsn

\* A load at `offset` from an address that is the iadd of a and b (root
\* "iadd") or a plain value (root "plain", the value of a).
AmodeScenario(root, aligned, offset, a, b, junk) ==
  [kind |-> "amode", root |-> root, offset |-> offset, a |-> a, b |-> b, junk |-> junk,
   insns |-> <<Insn("Load", "I64", aligned, offset,
                    <<IF root = "iadd"
                        THEN Input("I64", None, "UniqueUse", 0, 2, <<5>>, <<0>>)
                        ELSE ParamInput("I64", <<5>>, <<AmodeOperandVal(a)>>)>>, <<6>>),
               IF root = "iadd"
                 THEN Insn("Iadd", "I64", FALSE, 0,
                           <<AmodeOperandInput(a, 0), AmodeOperandInput(b, 1)>>, <<5>>)
                 ELSE NoInsn,
               AmodeOperandInsn(a, 0), AmodeOperandInsn(b, 1)>>]

AmodeScenarios ==
  {AmodeScenario("iadd", s.aligned, s.offset, s.a, s.b, s.junk) :
     s \in [aligned : BOOLEAN, offset : 0 .. Pow2(HalfBits) - 1, a : AmodeOperands,
            b : AmodeOperands, junk : {AllOnes}]}
    \cup {AmodeScenario("plain", s.aligned, s.offset, s.a, s.a, s.junk) :
            s \in [aligned : BOOLEAN, offset : 0 .. Pow2(HalfBits) - 1,
                   a : {od \in AmodeOperands : od.form = "reg"}, junk : {AllOnes}]}

\* Registers 1 and 2 hold the operands that other instructions compute,
\* registers 3 and 4 the values those instructions work on, register 5 a
\* plain address; every other register holds junk.
AmodeRegs ==
  [k \in 1 .. RegFileSize |->
     CASE k = 1 /\ ir.a.form # "const" -> AmodeOperandVal(ir.a)
       [] k = 2 /\ ir.b.form # "const" -> AmodeOperandVal(ir.b)
       [] k = 3 /\ ir.a.form \in {"shl", "shlreg"} -> ir.a.z
       [] k = 4 /\ ir.b.form \in {"shl", "shlreg"} -> ir.b.z
       [] k = 5 /\ ir.root = "plain" -> AmodeOperandVal(ir.a)
       [] OTHER -> ir.junk]

InitAmode ==
  /\ ir \in AmodeScenarios
  /\ regs = AmodeRegs
  /\ InitLowering

LowerToAmode ==
  /\ phase = "start"
  /\ ir.kind = "amode"
  /\ \E r \in {lower_to_amode(Ctx, InsnInput(1, 0), ir.insns[1].offset)} :
       /\ Lowered(r)
       /\ phase' = IF r.val.base = Panic THEN "panicked" ELSE "lowered"
  /\ UNCHANGED <<ir, flags, mpc, label>>
  /\ UNCHANGED component_vars

NextAmode == LowerToAmode \/ Exec

SpecAmode == InitAmode /\ [][NextAmode]_vars

-----------------------------------------------------------------------------
(* Claims about lower_to_amode.                                             *)

AmodeOperandOf(i) == IF i = 0 THEN ir.a ELSE ir.b

AmodeRoot == ir.kind = "amode" /\ ir.root = "iadd" /\ phase = "lowered"

\* Operand i is a shift left by a constant of at most 3.
SmallShift(i) == AmodeOperandOf(i).form = "shl" /\ AmodeOperandOf(i).amt <= 3

\* The constant operand i adds to the address: the iconst itself, or the
\* constant of a uextend zero-extended from its source width; None otherwise.
FoldableConst(i) ==
  CASE AmodeOperandOf(i).form = "const" -> AmodeOperandOf(i).k
    [] AmodeOperandOf(i).form = "uext" -> AmodeOperandVal(AmodeOperandOf(i))
    [] OTHER -> None

\* static_offset + constant in wrapping arithmetic of the address width.
OffsetSum(i) == Trunc(SignExtend(ir.offset, HalfBits, WordBits) + FoldableConst(i), WordBits)

\* Register r is where operand i is at run time: the register of the value,
\* or for an iconst a temporary that an emitted move-immediate loads with it.
HoldsOperand(r, i) ==
  IF AmodeOperandOf(i).form = "const"
    THEN /\ r >= FirstTmp
         /\ \E n \in 1 .. Len(insts) :
              insts[n] = Inst_imm(64, AmodeOperandOf(i).k, r)
    ELSE r = i + 1

\* The address the load reads: the value of the iadd plus the offset.
AmodeRefAddr ==
  Trunc(AmodeOperandVal(ir.a) + AmodeOperandVal(ir.b)
        + SignExtend(ir.offset, HalfBits, WordBits), WordBits)

OnlyMoveImmediates == \A n \in 1 .. Len(insts) : insts[n].op = "imm"

\* C11: when an operand of the iadd is a shift left (used once or more) by a
\* constant of at most 3, lower_to_amode returns one base + index * 2^shift +
\* displacement descriptor whose index is the shifted value, whose shift is
\* the constant, whose base is the other operand and whose displacement is
\* the static offset; it emits no add and no shift (only the move-immediate
\* of a constant base), and the descriptor addresses the iadd's value plus
\* the offset.  Every descriptor returned has a shift among 0, 1, 2, 3.
C11_SmallShiftFoldsIntoIndex ==
  /\ (ir.kind = "amode" /\ phase = "lowered" /\ ret.amode = "ImmRegRegShift")
       => ret.shift \in 0 .. 3
  /\ (AmodeRoot /\ (SmallShift(0) \/ SmallShift(1)))
       => /\ ret.amode = "ImmRegRegShift"
          /\ ret.simm32 = ir.offset
          /\ \E i \in {0, 1} :
               /\ SmallShift(i)
               /\ ret.index = i + 3
               /\ ret.shift = AmodeOperandOf(i).amt
               /\ HoldsOperand(ret.base, 1 - i)
          /\ OnlyMoveImmediates
          /\ Halted => EffAddr(ret, regs) = AmodeRefAddr

\* C11 witness: iadd(ishl(index, 2), base) at a non-zero offset has become
\* base + index * 4 + offset with nothing emitted.
C11_Witness ==
  /\ AmodeRoot /\ Halted
  /\ ir.a.form = "shl" /\ ir.a.amt = 2 /\ ir.b.form = "reg"
  /\ ir.offset = Pow2(HalfBits - 1) - 1
  /\ ret = Amode_imm_reg_reg_shift(ir.offset, 2, 3, 2, ir.insns[1].aligned)
  /\ insts = <<>>

\* C12: when lower_to_amode returns a base + displacement descriptor for an
\* iadd, it has folded one operand, which is an iconst or the uextend of a
\* constant: the displacement sign-extended to the address width is the
\* static offset plus that constant (zero-extended from the uextend's source
\* width) in wrapping arithmetic, that sum is the sign-extension of its own
\* low half, the base is the other operand, and the descriptor addresses the
\* iadd's value plus the offset.
C12_FoldedDisplacementIsCheckedSum ==
  (AmodeRoot /\ ret.amode = "ImmReg")
    => /\ \E i \in {0, 1} :
            /\ FoldableConst(i) # None
            /\ SignExtend(ret.simm32, HalfBits, WordBits) = OffsetSum(i)
            /\ OffsetSum(i) = SignExtend(OffsetSum(i), HalfBits, WordBits)
            /\ HoldsOperand(ret.base, 1 - i)
       /\ Halted => EffAddr(ret, regs) = AmodeRefAddr

\* C12 witness: the all-ones constant zero-extended from 8 bits has been
\* folded into a negative static offset.
C12_Witness ==
  /\ AmodeRoot /\ Halted
  /\ ir.a.form = "reg"
  /\ ir.b.form = "uext" /\ ir.b.from = "I8" /\ ir.b.k = AllOnes
  /\ ir.offset = Pow2(HalfBits) - 1
  /\ ret = Amode_imm_reg(Pow2(ByteBits) - 2, 1, ir.insns[1].aligned)

\* Operand i is a constant whose sum with the static offset is not the
\* sign-extension of its low half.
Unfoldable(i) ==
  /\ FoldableConst(i) # None
  /\ OffsetSum(i) # SignExtend(OffsetSum(i), HalfBits, WordBits)

\* The displacements that leave constant operand i out: the static offset
\* alone, or with the constant of the other operand.
DispWithout(i) ==
  {ir.offset} \cup (IF FoldableConst(1 - i) # None
                     THEN {Trunc(OffsetSum(1 - i), HalfBits)} ELSE {})

\* C13 as stated: when the static offset plus a constant operand does not
\* sign-extend from the low half, the constant is not in the displacement
\* and an add instruction is among the emitted code.
C13_UnfoldableConstantEmitsAdd ==
  (AmodeRoot /\ (Unfoldable(0) \/ Unfoldable(1)))
    => /\ \A i \in {0, 1} : Unfoldable(i) => ret.simm32 \in DispWithout(i)
       /\ \E n \in 1 .. Len(insts) : insts[n].op = "alu" /\ insts[n].alu = "Add"

\* C13 amended: when the static offset plus a constant operand does not
\* sign-extend from the low half, the constant is not in the displacement;
\* the operand is in a register (an iconst in a temporary loaded by a
\* move-immediate) that is the base or the index of the descriptor, no add is
\* emitted, and the descriptor addresses the iadd's value plus the offset.
C13_UnfoldableConstantStaysInRegister ==
  (AmodeRoot /\ (Unfoldable(0) \/ Unfoldable(1)))
    => /\ \A i \in {0, 1} :
            Unfoldable(i)
              => /\ ret.simm32 \in DispWithout(i)
                 /\ \/ HoldsOperand(ret.base, i)
                    \/ ret.amode = "ImmRegRegShift" /\ ret.shift = 0
                         /\ HoldsOperand(ret.index, i)
       /\ OnlyMoveImmediates
       /\ Halted => EffAddr(ret, regs) = AmodeRefAddr

\* C13 witness: the largest positive displacement plus the constant 1: the
\* constant has been loaded into a temporary that is the index.
C13_Witness ==
  /\ AmodeRoot /\ Halted
  /\ ir.a.form = "reg" /\ ir.b.form = "const" /\ ir.b.k = 1
  /\ ir.offset = Pow2(HalfBits - 1) - 1
  /\ ret = Amode_imm_reg_reg_shift(ir.offset, 1, FirstTmp, 0, ir.insns[1].aligned)
  /\ insts = <<Inst_imm(64, 1, FirstTmp)>>
  /\ EffAddr(ret, regs) = AmodeRefAddr

-----------------------------------------------------------------------------
(* Lowering of instructions: LowerBackend::lower is called on the           *)
(* instructions ir.order of a function, in program order, and the machine   *)
(* then runs the emitted code when it models all of it.                     *)

\* A function whose instructions ir.order are lowered; isle tells whether the
\* pattern matcher lowers them, exec whether the machine runs the result.
InsnScenario(fam, insns, order, isle, exec) ==
  [kind |-> "insn", fam |-> fam, insns |-> insns, order |-> order,
   isle |-> [k \in 1 .. Len(insns) |-> isle], exec |-> exec /\ ~isle,
   avoid_div_traps |-> FALSE, use_sse41 |-> TRUE, abi_ok |-> TRUE,
   sig |-> [params |-> 0, returns |-> 0], junk |-> AllOnes]

\* An instruction with a condition code and a result of type ty.
CondInsnOf(opcode, ty, cc, inputs, out_regs) ==
  [Insn(opcode, ty, FALSE, 0, inputs, out_regs) EXCEPT !.cc = cc]

\* The flags an ifcmp (instruction i) gives its consumer.
FlagsInput(i) == Input("IFLAGS", None, "UniqueUse", 0, i, <<>>, <<>>)

\* selectif cc (ifcmp l, r), t, f: instruction 1 selects, instruction 2
\* compares; l, r are in registers 1.. and 3.., t and f in 5.. and 7.., the
\* result in 9...
SelectifScenario(op, cty, sty, cc, l, r, t, f) ==
  InsnScenario("selectif",
    <<CondInsnOf(op, sty, cc,
                 <<FlagsInput(2), OperandInput(t, sty, 5, RegList(sty, 5)),
                   OperandInput(f, sty, 6, RegList(sty, 7))>>, RegList(sty, 9)),
      CondInsnOf("Ifcmp", "IFLAGS", cc,
                 <<OperandInput(l, cty, 3, RegList(cty, 1)),
                   OperandInput(r, cty, 4, RegList(cty, 3))>>, <<>>),
      OperandInsn(l, cty, 0, RegList(cty, 1)), OperandInsn(r, cty, 0, RegList(cty, 3)),
      OperandInsn(t, sty, 0, RegList(sty, 5)), OperandInsn(f, sty, 0, RegList(sty, 7))>>,
    <<1>>, FALSE, TRUE)

SelectOperands(ty, v) == RegOperandsOver(ty, {v}) \cup ConstOperandsOver(ty, {v})

SelectifScenarios ==
  {SelectifScenario(s.op, s.cty, s.sty, s.cc, s.l, s.r, s.t, s.f) :
     s \in UNION {[op : {"Selectif", "SelectifSpectreGuard"}, cty : {cty}, sty : {sty},
                   cc : {"Equal", "NotEqual", "SignedLessThan", "UnsignedGreaterThanOrEqual"},
                   l : RegOperandsOver(cty, {1, AllOnes}) \cup ConstOperandsOver(cty, {1}),
                   r : RegOperandsOver(cty, {1}) \cup ConstOperandsOver(cty, {1, AllOnes}),
                   t : SelectOperands(sty, 1), f : SelectOperands(sty, 2)] :
                  cty \in {"I32", "I64", "I128"},
                  sty \in {"I8", "I32", "I64", "R64", "I128", "F64"}}}

\* A division of a by b, in registers 1 and 2, into register 3.
DivScenarios ==
  {[InsnScenario("divrem",
      <<Insn(s.op, s.ty, FALSE, 0,
             <<OperandInput(s.a, s.ty, 2, RegList(s.ty, 1)),
               OperandInput(s.b, s.ty, 3, RegList(s.ty, 3))>>, <<5>>),
        OperandInsn(s.a, s.ty, 0, RegList(s.ty, 1)),
        OperandInsn(s.b, s.ty, 0, RegList(s.ty, 3))>>, <<1>>, s.isle, FALSE)
      EXCEPT !.avoid_div_traps = s.avoid] :
     s \in UNION {[op : {"Udiv", "Urem", "Sdiv", "Srem"}, ty : {ty}, avoid : BOOLEAN,
                   isle : BOOLEAN, a : SelectOperands(ty, AllOnes - 1),
                   b : SelectOperands(ty, 1)] :
                  ty \in {"I8", "I16", "I32", "I64", "I128"}}}

\* iconcat lo, hi (instruction 1, into registers 3 and 4) and the isplit of
\* its result (instruction 2, into registers 5 and 6); ty is the type the
\* iconcat is given.
ConcatScenarios ==
  {InsnScenario("concat",
     <<Insn("Iconcat", s.ty, FALSE, 0,
            <<OperandInput(s.lo, "I64", 3, <<1>>), OperandInput(s.hi, "I64", 4, <<2>>)>>,
            <<3, 4>>),
       Insn("Isplit", "I64", FALSE, 0,
            <<Input(s.ty, None, "UniqueUse", 0, 1, <<3, 4>>, <<s.lo.val[1], s.hi.val[1]>>)>>,
            <<5, 6>>),
       OperandInsn(s.lo, "I64", 0, <<1>>), OperandInsn(s.hi, "I64", 0, <<2>>)>>,
     <<1, 2>>, FALSE, TRUE) :
     s \in [ty : {"I128"}, lo : RegOperandsOver("I64", Words) \cup ConstOperandsOver("I64", {1}),
            hi : RegOperandsOver("I64", Words) \cup ConstOperandsOver("I64", {AllOnes})]
             \cup [ty : {"I64"}, lo : RegOperandsOver("I64", {1}),
                   hi : RegOperandsOver("I64", {1})]}

\* One instruction of one input, with or without a result, for every opcode
\* whose arm reads nothing else; nop and set_pinned_reg have no result.
PlainOpcodes ==
  ImplementedInIsle \cup UnimplementedOpcodes \cup LegalizedOpcodes
    \cup {"GetPinnedReg", "SetPinnedReg", "RawBitcast", "Nop"}

OpcodeScenarios ==
  {InsnScenario("opcode",
     <<Insn(s.op, "I64", FALSE, 0, <<ParamInput("I64", <<1>>, <<1>>)>>, s.out)>>,
     <<1>>, s.isle, FALSE) :
     s \in {t \in [op : PlainOpcodes, out : {<<>>, <<2>>}, isle : BOOLEAN] :
               t.op \in {"Nop", "SetPinnedReg"} => t.out = <<>>}}

\* uunarrow of the result of instruction 2, which is an fcvt_to_uint_sat,
\* another conversion, or no instruction at all.
UunarrowScenarios ==
  {InsnScenario("uunarrow",
     <<Insn("Uunarrow", "I32X4", FALSE, 0,
            <<IF s.producer = "None" THEN ParamInput("I32X4", <<2>>, <<1>>)
              ELSE Input("I32X4", None, s.src, 0, 2, <<2>>, <<1>>)>>, <<3>>),
       Insn(s.producer, "I32X4", FALSE, 0, <<ParamInput("F64X2", <<1>>, <<1>>)>>, <<2>>)>>,
     <<1>>, s.isle, FALSE) :
     s \in [producer : {"FcvtToUintSat", "FcvtToSintSat", "None"},
            src : {"UniqueUse", "Use"}, isle : BOOLEAN]}

\* The k-th argument (from 0) of a call: a value in register k + 2 or a
\* constant.
CallArg(a, k) ==
  IF a = "const" THEN ConstInput("I64", k + 1, 0) ELSE ParamInput("I64", <<k + 2>>, <<k + 1>>)

\* call / call_indirect of `args` with nret results; the callee pointer of a
\* call_indirect is a value in register 1 or a constant.  The signature has
\* extra more parameters than the call has arguments.
CallScenarios ==
  {[InsnScenario("call",
      <<Insn(s.op, "I64", FALSE, 0,
             (IF s.op = "Call" THEN <<>>
              ELSE IF s.ptr = "const" THEN <<ConstInput("I64", AllOnes - 1, 0)>>
              ELSE <<ParamInput("I64", <<1>>, <<AllOnes - 1>>)>>)
               \o [k \in 1 .. Len(s.args) |-> CallArg(s.args[k], k - 1)],
             IF s.nret = 1 THEN <<5>> ELSE <<>>)>>, <<1>>, s.isle, FALSE)
      EXCEPT !.abi_ok = s.abi_ok,
             !.sig = [params |-> Len(s.args) + s.extra, returns |-> s.nret]] :
     s \in [op : {"Call", "CallIndirect"}, ptr : {"reg", "const"},
            args : {<<>>, <<"reg">>, <<"const">>, <<"reg", "const">>, <<"const", "reg">>},
            nret : {0, 1}, abi_ok : BOOLEAN, extra : {0, 1}, isle : BOOLEAN]}

\* ceil, floor, nearest or trunc of a float or a vector of floats.
RoundScenarios ==
  {[InsnScenario("round",
      <<Insn(s.op, s.ty, FALSE, 0, <<OperandInput(s.a, s.ty, 2, <<1>>)>>, <<2>>),
        OperandInsn(s.a, s.ty, 0, <<1>>)>>, <<1>>, s.isle, FALSE)
      EXCEPT !.abi_ok = s.abi_ok, !.use_sse41 = s.use_sse41,
             !.sig = [params |-> 1, returns |-> 1]] :
     s \in [op : {"Ceil", "Floor", "Nearest", "Trunc"}, ty : {"F32", "F64", "F32X4", "F64X2"},
            a : [form : {"reg"}, val : {<<1>>}] \cup ConstOperandsOver("F64", {1}),
            use_sse41 : BOOLEAN, abi_ok : BOOLEAN, isle : BOOLEAN]}

\* trapif / trapff: an instruction with a condition code and a trap code.
TrapInsn(opcode, cc, inputs) ==
  [opcode |-> opcode, num_inputs |-> Len(inputs), out_ty |-> "INVALID", aligned |-> FALSE,
   offset |-> 0, inputs |-> inputs, out_regs |-> <<>>, cc |-> cc, trap_code |-> "User"]

\* trapff cc (ffcmp l, r) and trapif cc (ifcmp l, r): instruction 1 traps,
\* instruction 2 compares l (register 1) with r (register 2).
TrapScenario(op, cmp, ty, cc, l, r, junk, isle) ==
  [InsnScenario(IF op = "Trapff" THEN "trapff" ELSE "trapif",
     <<TrapInsn(op, cc, <<FlagsInput(2)>>),
       CondInsnOf(cmp, "IFLAGS", cc,
                  <<OperandInput(l, ty, 3, <<1>>), OperandInput(r, ty, 4, <<2>>)>>, <<>>),
       OperandInsn(l, ty, 0, <<1>>), OperandInsn(r, ty, 0, <<2>>)>>,
     <<1>>, isle, cmp # "IaddIfcout")
   EXCEPT !.junk = junk]

TrapScenarios ==
  {TrapScenario("Trapff", "Ffcmp", s.ty, s.cc, s.l, s.r, s.junk, s.isle) :
     s \in [ty : {"F32", "F64"}, cc : FloatCCs, junk : JunkVals, isle : BOOLEAN,
            l : FloatOperandsL("F64"), r : FloatOperandsL("F64")]}
    \cup
  {TrapScenario("Trapif", s.cmp, s.ty, s.cc, s.l, s.r, AllOnes, FALSE) :
     s \in [cmp : {"Ifcmp", "IaddIfcout"}, ty : {"I32", "I64"},
            cc : {"Equal", "UnsignedLessThan", "Overflow"},
            l : RegOperandsOver("I32", {1, AllOnes}), r : RegOperandsOver("I32", {1})]}

InsnScenarios ==
  SelectifScenarios \cup DivScenarios \cup ConcatScenarios \cup OpcodeScenarios
    \cup UunarrowScenarios \cup CallScenarios \cup RoundScenarios \cup TrapScenarios

\* The values that are block parameters are in their registers (a value
\* narrower than a register under junk); every other register holds junk.
InsnRegs ==
  LET holds(k, i, j) ==
        /\ ir.insns[i].inputs[j].constant = None
        /\ ir.insns[i].inputs[j].src = "None"
        /\ \E n \in 1 .. Len(ir.insns[i].inputs[j].regs) : ir.insns[i].inputs[j].regs[n] = k
      value(k, in) ==
        WithJunk(in.val[CHOOSE n \in 1 .. Len(in.regs) : in.regs[n] = k],
                 SBits(ty_bits(in.ty)), ir.junk)
  IN [k \in 1 .. RegFileSize |->
        IF \E i \in 1 .. Len(ir.insns) : \E j \in 1 .. Len(ir.insns[i].inputs) : holds(k, i, j)
          THEN LET p == CHOOSE p \in (1 .. Len(ir.insns)) \X (1 .. 3) :
                          p[2] <= Len(ir.insns[p[1]].inputs) /\ holds(k, p[1], p[2])
               IN value(k, ir.insns[p[1]].inputs[p[2]])
          ELSE ir.junk]

InitInsn ==
  /\ ir \in InsnScenarios
  /\ regs = InsnRegs
  /\ insts = <<>>
  /\ next_vreg = FirstTmp
  /\ sunk = <<>>
  /\ ret = <<>>
  /\ flags = [zf |-> FALSE, cf |-> FALSE, sf |-> FALSE, of |-> FALSE, pf |-> FALSE]
  /\ mpc = 1
  /\ label = 0
  /\ phase = "start"
  /\ NoComponent

\* LowerBackend::lower on the next instruction of ir.order: the call is
\* recorded with its result and the positions from..to of what it emitted.
\* A panic or an error ends the compilation.
LowerInsn ==
  /\ phase = "start"
  /\ ir.kind = "insn"
  /\ Len(ret) < Len(ir.order)
  /\ \E r \in {LowerBackend_lower(Ctx, ir.order[Len(ret) + 1])} :
       /\ insts' = r.ctx.insts
       /\ next_vreg' = r.ctx.next_vreg
       /\ sunk' = r.ctx.sunk
       /\ ret' = Append(ret, [insn |-> ir.order[Len(ret) + 1], val |-> r.val,
                              from |-> Len(insts) + 1, to |-> Len(r.ctx.insts)])
       /\ phase' = CASE r.val.kind = "panic" -> "panicked"
                     [] r.val.kind = "Err" -> "failed"
                     [] r.val.kind = "Ok" /\ Len(ret) + 1 < Len(ir.order) -> "start"
                     [] OTHER -> IF ir.exec THEN "lowered" ELSE "emitted"
  /\ UNCHANGED <<ir, regs, flags, mpc, label>>
  /\ UNCHANGED component_vars

NextInsn == LowerInsn \/ Exec

SpecInsn == InitInsn /\ [][NextInsn]_vars

-----------------------------------------------------------------------------
(* Claims about lower_insn_to_regs.                                        *)

\* The instructions that write the flags.
FlagModifying(i) ==
  i.op \in {"cmp", "test", "alu", "xmm_cmp", "shift_r", "div", "checked_div_or_rem_seq"}

IsCondMove(i) == i.op \in {"cmove", "xmm_cmove"}

\* The selectif of a selectif scenario, its operands and its result.
SelectTy == ir.insns[1].out_ty

SelectTrue == ir.insns[1].inputs[2]

SelectFalse == ir.insns[1].inputs[3]

SelectDst == ir.insns[1].out_regs

\* Whether the comparison of the ifcmp holds of its operands.
SelectCond ==
  LET cty == ir.insns[2].inputs[1].ty
      l == ir.insns[2].inputs[1].val
      r == ir.insns[2].inputs[2].val
  IN IF cty = "I128"
       THEN IntCCHolds(ir.insns[1].cc, Val128(l), Val128(r), 2 * WordBits)
       ELSE IntCCHolds(ir.insns[1].cc, l[1], r[1], SBits(ty_bits(cty)))

\* C14: the code emitted for selectif and selectif_spectre_guard ends with
\* one move of the false operand (input 2) into every register of the
\* result, followed by one conditional move of a register of the true
\* operand (input 1) into each of them; what precedes the moves ends with
\* the comparison, whose last instruction writes the flags, and no
\* instruction after it does; run on the machine, the result holds the true
\* operand if the comparison holds and the false operand otherwise.
C14_SelectifComparesMovesThenCmoves ==
  (ir.kind = "insn" /\ ir.fam = "selectif" /\ phase = "lowered")
    => LET n == NumRegs(SelectTy)
           L == Len(insts)
           w == IF SelectTy = "I128" THEN WordBits ELSE SBits(ty_bits(SelectTy))
           chosen == IF SelectCond THEN SelectTrue.val ELSE SelectFalse.val
       IN /\ ret[1].val.kind = "Ok" /\ ret[1].to = L
          /\ L > 2 * n
          /\ \A k \in 1 .. n :
               /\ insts[L - 2 * n + k].op = "mov"
               /\ insts[L - 2 * n + k].dst = SelectDst[k]
               /\ IsCondMove(insts[L - n + k])
               /\ insts[L - n + k].dst = SelectDst[k]
               /\ insts[L - n + k].src.kind = "reg"
               /\ insts[L - n + k].src.reg # insts[L - 2 * n + k].src
          /\ FlagModifying(insts[L - 2 * n])
          /\ \A m \in L - 2 * n + 1 .. L : ~FlagModifying(insts[m])
          /\ \A m \in 1 .. L - 2 * n : ~IsCondMove(insts[m]) /\ insts[m].op # "mov"
          /\ Halted => \A k \in 1 .. n : Trunc(regs[SelectDst[k]], w) = Trunc(chosen[k], w)

\* C14 witness: a selectif of 128-bit values on a 128-bit comparison that
\* holds has run: two moves and two conditional moves follow the comparison
\* and the result is the true operand.
C14_Witness ==
  /\ ir.kind = "insn" /\ ir.fam = "selectif" /\ Halted
  /\ SelectTy = "I128" /\ ir.insns[2].inputs[1].ty = "I128"
  /\ ir.insns[1].opcode = "Selectif" /\ ir.insns[1].cc = "SignedLessThan"
  /\ SelectCond
  /\ SelectTrue.constant = None /\ SelectFalse.constant = None
  /\ insts[Len(insts) - 3].op = "mov" /\ insts[Len(insts) - 2].op = "mov"
  /\ insts[Len(insts) - 1].op = "cmove" /\ insts[Len(insts)].op = "cmove"
  /\ <<regs[SelectDst[1]], regs[SelectDst[2]]>> = SelectTrue.val
  /\ SelectTrue.val # SelectFalse.val

\* A division scenario whose division the hand-written arm has lowered.
DivLowered ==
  /\ ir.kind = "insn" /\ ir.fam = "divrem"
  /\ ret # <<>> /\ ret[1].val.kind = "Ok" /\ ~ir.isle[1]

DivOp == ir.insns[1].opcode

DivGuarded == \E m \in 1 .. Len(insts) : insts[m].op = "checked_div_or_rem_seq"

\* What follows the move of the dividend: the guarded sequence exactly when
\* avoid_div_traps is set or the opcode is srem; otherwise the fill of the
\* high half and exactly one div or idiv of a register divisor.
DivSequenceAfterMove ==
  /\ DivGuarded <=> (ir.avoid_div_traps \/ DivOp = "Srem")
  /\ DivGuarded
       => /\ Cardinality({m \in 1 .. Len(insts) : insts[m].op = "checked_div_or_rem_seq"}) = 1
          /\ \A m \in 1 .. Len(insts) :
               /\ insts[m].op # "div"
               /\ insts[m].op = "checked_div_or_rem_seq" => insts[m].kind = DivOrRemKind(DivOp)
  /\ ~DivGuarded
       => /\ Cardinality({m \in 1 .. Len(insts) : insts[m].op = "div"}) = 1
          /\ \A m \in 1 .. Len(insts) :
               insts[m].op = "div"
                 => /\ insts[m].divisor.kind = "reg"
                    /\ insts[m].signed <=> DivOp \in {"Sdiv", "Srem"}
                    /\ m > 1
                    /\ IF DivOp = "Sdiv"
                         THEN insts[m - 1] = Inst_sign_extend_data(insts[m].size)
                         ELSE \/ insts[m - 1] = Inst_imm(64, 0, rdx)
                              \/ /\ ir.insns[1].inputs[1].ty = "I8"
                                 /\ insts[m - 1] = Inst_movzx_rm_r(8, 32, RegMemImm_reg(rax), rax)

\* C15 as stated: the move of the dividend into rax is the first instruction
\* emitted for udiv, urem, sdiv and srem, and the guarded or the plain
\* sequence follows as avoid_div_traps and the opcode decide.
C15_DividendMovedFirst ==
  DivLowered
    => /\ insts[1].op = "mov" /\ insts[1].dst = rax
       /\ DivSequenceAfterMove

\* C15 amended: the dividend is resolved to a register, a constant dividend
\* being first loaded into a fresh temporary by one move-immediate, and moved
\* into rax before anything else is emitted; the guarded or the plain
\* sequence follows as avoid_div_traps and the opcode decide.
C15_DividendResolvedThenMovedFirst ==
  DivLowered
    => LET dividend == ir.insns[1].inputs[1]
           d == IF dividend.constant # None THEN 1 ELSE 0
       IN /\ d = 1 => /\ insts[1].op = "imm" /\ insts[1].dst >= FirstTmp
                      /\ insts[1].simm64 = dividend.val[1]
          /\ insts[d + 1].op = "mov" /\ insts[d + 1].dst = rax
          /\ insts[d + 1].src = (IF d = 1 THEN insts[1].dst ELSE dividend.regs[1])
          /\ DivSequenceAfterMove

\* C15 witness: an srem of a constant dividend without avoid_div_traps has
\* been lowered to the move-immediate, the move into rax and the guarded
\* sequence.
C15_Witness ==
  /\ DivLowered
  /\ DivOp = "Srem" /\ ~ir.avoid_div_traps
  /\ ir.insns[1].inputs[1].constant # None
  /\ insts[1].op = "imm" /\ insts[2].op = "mov" /\ insts[2].dst = rax
  /\ DivGuarded

\* An iconcat and the isplit of its result, both lowered by the hand-written
\* arms.
ConcatSplitLowered ==
  /\ ir.kind = "insn" /\ ir.fam = "concat"
  /\ Len(ret) = 2 /\ ret[1].val.kind = "Ok" /\ ret[2].val.kind = "Ok"

ConcatLo == ir.insns[1].inputs[1]

ConcatHi == ir.insns[1].inputs[2]

IsRegMove64(i) == i.op = "mov" /\ i.class = "gpr64"

\* After the emitted code has run, the results of the isplit hold lo and hi.
ConcatSplitRoundTrip ==
  Halted => /\ regs[ir.insns[2].out_regs[1]] = ConcatLo.val[1]
            /\ regs[ir.insns[2].out_regs[2]] = ConcatHi.val[1]

\* C16 as stated: iconcat(lo, hi) followed by isplit emits nothing but
\* register-to-register 64-bit moves, and the results of the isplit hold lo
\* and hi in that order.
C16_ConcatSplitOnlyRegisterMoves ==
  ConcatSplitLowered
    => /\ \A m \in 1 .. Len(insts) : IsRegMove64(insts[m])
       /\ ConcatSplitRoundTrip

\* C16 amended: iconcat(lo, hi) followed by isplit emits two
\* register-to-register 64-bit moves each, preceded only by the
\* move-immediate of a lo or hi that is a constant; nothing emitted is
\* arithmetic, and the results of the isplit hold lo and hi in that order.
C16_ConcatSplitMovesAfterResolvingOperands ==
  ConcatSplitLowered
    => LET consts == Cardinality({m \in 1 .. 2 : ir.insns[1].inputs[m].constant # None})
       IN /\ Len(insts) = consts + 4
          /\ \A m \in 1 .. consts :
               /\ insts[m].op = "imm" /\ insts[m].dst >= FirstTmp
               /\ insts[m].simm64 \in {ConcatLo.val[1], ConcatHi.val[1]}
          /\ \A m \in consts + 1 .. consts + 4 : IsRegMove64(insts[m])
          /\ ret[2].from = consts + 3
          /\ ConcatSplitRoundTrip

\* C16 witness: the code emitted for an iconcat of two registers holding
\* different values, and for the isplit of its result, has run, and the
\* results hold the two values.
C16_Witness ==
  /\ ConcatSplitLowered /\ Halted
  /\ ConcatLo.constant = None /\ ConcatHi.constant = None
  /\ ConcatLo.val[1] # ConcatHi.val[1]
  /\ regs[ir.insns[2].out_regs[1]] = ConcatLo.val[1]
  /\ regs[ir.insns[2].out_regs[2]] = ConcatHi.val[1]
  /\ Len(insts) = 4

\* What the k-th call of lower appended to the output.
EmittedBy(k) == {m \in 1 .. Len(insts) : ret[k].from <= m /\ m <= ret[k].to}

\* C17: the pattern matcher is tried first.  When it lowers the instruction,
\* lower returns Ok and the output has grown by the matcher's instructions
\* alone, whatever the opcode's arm would have done; whatever the arms did
\* (an instruction of theirs, an error, a panic) follows a matcher that
\* declined and emitted nothing.
C17_IsleFirstThenDispatcher ==
  ir.kind = "insn"
    => \A k \in 1 .. Len(ret) :
         /\ ir.isle[ret[k].insn]
              => /\ ret[k].val.kind = "Ok"
                 /\ ret[k].to = ret[k].from
                 /\ insts[ret[k].from].op = "isle"
                 /\ insts[ret[k].from].insn = ret[k].insn
         /\ ~ir.isle[ret[k].insn]
              => \A m \in EmittedBy(k) : insts[m].op # "isle"

\* C17 witness: the matcher has lowered an instruction whose opcode the
\* hand-written arms panic on, and lower has returned Ok with the matcher's
\* instruction as the only one emitted.
C17_Witness ==
  /\ ir.kind = "insn" /\ Len(ret) = 1
  /\ ir.isle[ret[1].insn]
  /\ ir.insns[ret[1].insn].opcode \in LegalizedOpcodes
  /\ ret[1].val.kind = "Ok"
  /\ Len(insts) = 1 /\ insts[1].op = "isle"

\* The k-th call of lower went through the hand-written dispatcher, for an
\* instruction that defines a result.
DispatchedWithResult(k) ==
  /\ ~ir.isle[ret[k].insn]
  /\ ir.insns[ret[k].insn].out_regs # <<>>

\* C18: when the pattern matcher has declined an instruction that defines a
\* result, lower does not return Ok having emitted nothing: it emits at least
\* one instruction or the compilation is aborted.
C18_NoSilentSuccess ==
  ir.kind = "insn"
    => \A k \in 1 .. Len(ret) :
         (DispatchedWithResult(k) /\ ret[k].val.kind = "Ok") => EmittedBy(k) # {}

\* The message of a panic raised by unimplemented!(..).
IsNotImplementedMsg(msg) ==
  /\ Len(msg) >= Len("not implemented: ")
  /\ SubSeq(msg, 1, Len("not implemented: ")) = "not implemented: "

\* C19: an opcode that legalization or verification removes, reaching the
\* hand-written dispatcher, makes the lowering panic: nothing is emitted and
\* lower does not return.  An opcode that is only unimplemented panics too,
\* with the "not implemented" message no legalized opcode gives.
C19_LegalizedAndUnimplementedAbort ==
  (ir.kind = "insn" /\ ret # <<>> /\ ~ir.isle[ret[1].insn])
    => LET op == ir.insns[ret[1].insn].opcode
       IN /\ op \in LegalizedOpcodes
               => /\ ret[1].val.kind = "panic" /\ phase = "panicked"
                  /\ insts = <<>>
                  /\ ~IsNotImplementedMsg(ret[1].val.msg)
          /\ op \in UnimplementedOpcodes
               => /\ ret[1].val.kind = "panic" /\ phase = "panicked"
                  /\ insts = <<>>
                  /\ IsNotImplementedMsg(ret[1].val.msg)

\* C19 witness: a copy that the pattern matcher declined has reached the
\* dispatcher and the lowering has panicked without emitting anything.
C19_Witness ==
  /\ ir.kind = "insn" /\ ret # <<>> /\ ~ir.isle[ret[1].insn]
  /\ ir.insns[ret[1].insn].opcode = "Copy"
  /\ ret[1].val.kind = "panic" /\ phase = "panicked"
  /\ insts = <<>>

\* The steps of the call sequence among what the k-th call of lower emitted.
AbiSteps(k, step) == {m \in EmittedBy(k) : insts[m].op = "abi" /\ insts[m].step = step}

\* The instruction lowered by the k-th call of lower is lowered to a call:
\* call, call_indirect, or a rounding done by a libcall.
LoweredToCall(k) ==
  /\ ~ir.isle[ret[k].insn]
  /\ \/ ir.insns[ret[k].insn].opcode \in {"Call", "CallIndirect"}
     \/ ir.insns[ret[k].insn].opcode \in {"Ceil", "Floor", "Nearest", "Trunc"} /\ ~ir.use_sse41

\* The whole call sequence is in the output: the stack adjustment first, one
\* copy per argument, the call, one copy per result, the re-adjustment last.
CallSequenceComplete(k) ==
  LET i == ir.insns[ret[k].insn]
      args == IF i.opcode = "CallIndirect" THEN i.num_inputs - 1 ELSE i.num_inputs
  IN /\ Cardinality(AbiSteps(k, "stack_pre_adjust")) = 1
     /\ Cardinality(AbiSteps(k, "copy_regs_to_arg")) = args
     /\ Cardinality(AbiSteps(k, "call")) = 1
     /\ Cardinality(AbiSteps(k, "copy_retval_to_regs")) = ctx_num_outputs(ret[k].insn)
     /\ Cardinality(AbiSteps(k, "stack_post_adjust")) = 1
     /\ insts[ret[k].to] = Inst_abi("stack_post_adjust", 0, <<>>)
     /\ \A m \in AbiSteps(k, "stack_pre_adjust") : \A n \in EmittedBy(k) : insts[n].op = "abi" => m <= n

\* The callee pointer of the call_indirect lowered by the k-th call is a
\* constant.
ConstantCallee(k) ==
  /\ ir.insns[ret[k].insn].opcode = "CallIndirect"
  /\ ir.insns[ret[k].insn].inputs[1].constant # None

\* C20 as stated: when lower returns Err nothing has been appended to the
\* output for that instruction; when it returns Ok for an instruction
\* lowered to a call, the whole call sequence has been.
C20_ErrEmitsNothing ==
  ir.kind = "insn"
    => \A k \in 1 .. Len(ret) :
         /\ ret[k].val.kind = "Err" => EmittedBy(k) = {}
         /\ (ret[k].val.kind = "Ok" /\ LoweredToCall(k)) => CallSequenceComplete(k)

\* C20 amended: when lower returns Err no instruction of the call sequence
\* has been appended, and nothing at all except the move-immediate of a
\* call_indirect's constant callee pointer; when it returns Ok for an
\* instruction lowered to a call, the whole call sequence has been appended.
C20_ErrEmitsNoCallSequence ==
  ir.kind = "insn"
    => \A k \in 1 .. Len(ret) :
         /\ ret[k].val.kind = "Err"
              => /\ LoweredToCall(k)
                 /\ \A m \in EmittedBy(k) : insts[m].op # "abi"
                 /\ IF ConstantCallee(k)
                      THEN /\ ret[k].to = ret[k].from
                           /\ insts[ret[k].from].op = "imm"
                           /\ insts[ret[k].from].simm64 = ir.insns[ret[k].insn].inputs[1].constant
                      ELSE EmittedBy(k) = {}
         /\ (ret[k].val.kind = "Ok" /\ LoweredToCall(k)) => CallSequenceComplete(k)

\* C20 witness: the construction of the ABI caller has failed for a call
\* with arguments, lower has returned Err and the output is empty.
C20_Witness ==
  /\ ir.kind = "insn" /\ Len(ret) = 1
  /\ ir.insns[ret[1].insn].opcode = "Call" /\ ir.insns[ret[1].insn].num_inputs > 0
  /\ ret[1].val.kind = "Err" /\ phase = "failed"
  /\ insts = <<>>

\* A rounding scenario whose instruction the hand-written arm has lowered.
RoundLowered ==
  /\ ir.kind = "insn" /\ ir.fam = "round"
  /\ ret # <<>> /\ ~ir.isle[1]

RoundOp == ir.insns[1].opcode

RoundTy == ir.insns[1].out_ty

IsRound(i) == i.op = "xmm_imm" /\ i.sse \in {"Roundss", "Roundsd", "Roundps", "Roundpd"}

RoundInsts == {m \in 1 .. Len(insts) : IsRound(insts[m])}

CallInsts == {m \in 1 .. Len(insts) : insts[m].op = "abi" /\ insts[m].step = "call"}

\* C21: with SSE4.1, ceil, floor, nearest and trunc are lowered to exactly
\* one round instruction, the last one emitted, whose immediate is the
\* rounding mode of the opcode (up, down, nearest, toward zero) and which
\* writes the result.  Without SSE4.1 no round instruction is emitted: for
\* F32 and F64 the call sequence of the matching library routine is, unless
\* the construction of its ABI caller returns an error; for a vector type the
\* lowering panics and nothing is emitted.
C21_RoundInstructionOrLibcall ==
  RoundLowered
    => /\ ir.use_sse41
            => /\ ret[1].val.kind = "Ok"
               /\ RoundInsts = {Len(insts)}
               /\ CallInsts = {}
               /\ insts[Len(insts)].sse = RoundSseOpcode(RoundTy)
               /\ insts[Len(insts)].dst = ir.insns[1].out_regs[1]
               /\ insts[Len(insts)].imm
                    = (CASE RoundOp = "Ceil" -> "RoundUp"
                         [] RoundOp = "Floor" -> "RoundDown"
                         [] RoundOp = "Nearest" -> "RoundNearest"
                         [] RoundOp = "Trunc" -> "RoundZero")
       /\ (~ir.use_sse41 /\ RoundTy \in {"F32", "F64"})
            => /\ RoundInsts = {}
               /\ ret[1].val.kind # "panic"
               /\ ret[1].val.kind = "Err" <=> ~ir.abi_ok
               /\ ret[1].val.kind = "Err" => insts = <<>>
               /\ ret[1].val.kind = "Ok"
                    => /\ Cardinality(CallInsts) = 1
                       /\ \A m \in CallInsts : insts[m].dest = RoundLibCall(RoundOp, RoundTy)
                       /\ CallSequenceComplete(1)
       /\ (~ir.use_sse41 /\ RoundTy \notin {"F32", "F64"})
            => /\ ret[1].val.kind = "panic" /\ phase = "panicked"
               /\ insts = <<>>

\* C21 witness: trunc.f64 has been lowered with SSE4.1 to one roundsd that
\* rounds toward zero.
C21_Witness ==
  /\ RoundLowered /\ ir.use_sse41
  /\ RoundOp = "Trunc" /\ RoundTy = "F64"
  /\ ret[1].val.kind = "Ok"
  /\ insts[Len(insts)].op = "xmm_imm" /\ insts[Len(insts)].sse = "Roundsd"
  /\ insts[Len(insts)].imm = "RoundZero"

\* The conditional branch of a two-branch group, the source of its input and
\* the opcode of the instruction producing it.
CondBranch == ir.insns[ir.branches[1]]

BranchInputUse == CondBranch.inputs[1].src

BranchInputProducer ==
  IF BranchInputUse \in {"UniqueUse", "Use"}
    THEN ir.insns[CondBranch.inputs[1].insn].opcode
    ELSE "None"

\* A brz or brnz followed by a jump has been lowered.
BrzGroupLowered ==
  /\ ir.kind = "branch" /\ Len(ir.branches) = 2
  /\ CondBranch.opcode \in {"Brz", "Brnz"}
  /\ phase = "lowered"

\* The comparison producing the input of the branch is in the output.
ComparisonReEmitted ==
  \E m \in 1 .. Len(insts) :
    \/ /\ insts[m].op = "cmp" /\ BranchInputProducer = "Icmp"
    \/ /\ insts[m].op = "xmm_cmp" /\ BranchInputProducer = "Fcmp"

\* C22 as stated: the comparison feeding a brz or brnz is re-emitted as the
\* flag producer of the branch only if the branch is its single use.
C22_ReEmittedOnlyIfSingleUse ==
  (BrzGroupLowered /\ ComparisonReEmitted) => BranchInputUse = "UniqueUse"

\* C22 amended: the comparison feeding a brz or brnz is re-emitted as the
\* flag producer of the branch exactly when the input of the branch is the
\* result of an icmp or an fcmp, whether or not that result has other uses;
\* the jump that ends the group then reads the flags of the re-emitted
\* comparison, and a branch on any other value tests the value itself.
C22_ReEmittedIfProducedByComparison ==
  BrzGroupLowered
    => /\ ComparisonReEmitted <=> BranchInputProducer \in {"Icmp", "Fcmp"}
       /\ BranchInputProducer \in {"Icmp", "Fcmp"}
            => /\ BranchInputUse \in {"UniqueUse", "Use"}
               /\ matches_input(InsnInput(ir.branches[1], 0), BranchInputProducer)
                    = CondBranch.inputs[1].insn
               /\ \A m \in 1 .. Len(insts) : insts[m].op # "test"
       /\ BranchInputProducer \notin {"Icmp", "Fcmp"}
            => \A m \in 1 .. Len(insts) : insts[m].op # "xmm_cmp"

\* C22 witness: a brnz of the result of an icmp that has other uses has been
\* lowered, and the comparison is in the output before the jump.
C22_Witness ==
  /\ BrzGroupLowered
  /\ BranchInputProducer = "Icmp" /\ BranchInputUse = "Use"
  /\ CondBranch.opcode = "Brnz"
  /\ insts[1].op = "cmp"
  /\ insts[Len(insts)].op = "jmp_cond"

\* A group of one branch has been handed to lower_branch_group.
SingleBranchDone ==
  /\ ir.kind = "branch" /\ Len(ir.branches) = 1
  /\ phase # "start"

SingleOp == ir.insns[ir.branches[1]].opcode

\* The group was lowered to one unconditional jump to targets[0].
LoweredToOneJump ==
  /\ phase = "lowered"
  /\ insts = <<Inst_jmp_known(ir.targets[1])>>
  /\ Halted => label = ir.targets[1]

BrTableLowered ==
  /\ ir.kind = "branch" /\ Len(ir.branches) = 1
  /\ ir.insns[ir.branches[1]].opcode = "BrTable"
  /\ phase = "lowered"

BrTableIndexTy == ir.insns[ir.branches[1]].inputs[1].ty

ZeroExtensions == {m \in 1 .. Len(insts) : insts[m].op = "movzx"}

\* C24: the code emitted for br_table ends with the zeroing of the first
\* temporary, the bounds-check compare of the index and one JmpTableSeq on
\* that index, that temporary and a second, different temporary, in this
\* order; it is the only JmpTableSeq and the only compare, and the
\* zero-extension of the index, when there is one, comes just before the
\* zeroing and writes the index register.
C24_BrTableSequenceOrder ==
  BrTableLowered
    => LET L == Len(insts)
       IN /\ L >= 3
          /\ insts[L].op = "jmp_table_seq"
          /\ insts[L - 1].op = "cmp" /\ insts[L - 1].src.kind = "imm"
          /\ insts[L - 2] = Inst_imm(64, 0, insts[L].tmp1)
          /\ insts[L].idx = insts[L - 1].dst
          /\ insts[L].tmp1 >= FirstTmp /\ insts[L].tmp2 >= FirstTmp
          /\ insts[L].tmp1 # insts[L].tmp2
          /\ insts[L].idx # insts[L].tmp1 /\ insts[L].idx # insts[L].tmp2
          /\ \A m \in 1 .. L - 1 : insts[m].op # "jmp_table_seq"
          /\ \A m \in 1 .. L - 2 : insts[m].op # "cmp"
          /\ ZeroExtensions \subseteq {L - 3}
          /\ \A m \in ZeroExtensions : insts[m].dst = insts[L].idx

\* C24 witness: a br_table on an I8 index has been lowered to the
\* zero-extension, the zeroing, the compare and the JmpTableSeq.
C24_Witness ==
  /\ BrTableLowered /\ BrTableIndexTy = "I8"
  /\ Len(insts) = 4
  /\ insts[1].op = "movzx" /\ insts[2].op = "imm" /\ insts[3].op = "cmp"
  /\ insts[4].op = "jmp_table_seq"

\* A group of one br_table has been handed to lower_branch_group.
BrTableDone ==
  /\ ir.kind = "branch" /\ Len(ir.branches) = 1
  /\ ir.insns[ir.branches[1]].opcode = "BrTable"
  /\ phase # "start"

\* The bounds check of the br_table lowered: the compare before the
\* JmpTableSeq.
BoundsCheck == insts[Len(insts) - 1]

\* C28: the lowering of a br_table succeeds for an I64 index, whose full
\* register the bounds check compares with the size of the table, and for a
\* narrower index, which is zero-extended to 32 bits if it is narrower than
\* that and compared by a 32-bit compare.
C28_BrTableIndexWidths ==
  BrTableDone
    => /\ phase = "lowered"
       /\ Len(insts) >= 3
       /\ BoundsCheck.op = "cmp"
       /\ BoundsCheck.src = RegMemImm_imm(Len(ir.targets) - 1)
       /\ BrTableIndexTy = "I64" => BoundsCheck.size = 64
       /\ BrTableIndexTy # "I64"
            => /\ BoundsCheck.size = 32
               /\ ty_bits(BrTableIndexTy) < 32
                    => \E m \in ZeroExtensions :
                         /\ insts[m].size = 32 /\ insts[m].from = ty_bits(BrTableIndexTy)
                         /\ insts[m].dst = BoundsCheck.dst

-----------------------------------------------------------------------------
(* Claims about the Trapff arm.                                            *)

\* The trapff of a scenario has been lowered and the emitted code has run.
TrapffDone == ir.kind = "insn" /\ ir.fam = "trapff" /\ Halted

TrapffCC == ir.insns[1].cc

\* The IEEE predicate of the trapff on the operands of its ffcmp.
TrapffRef ==
  FloatCCHolds(TrapffCC, ir.insns[2].inputs[1].val[1], ir.insns[2].inputs[2].val[1])

TrapIfs == {k \in 1 .. Len(insts) : insts[k].op = "trap_if"}

\* C25: for Trapff the trap fires exactly when the float condition holds,
\* whatever the fresh temporaries held before: Equal (AndConditions) is
\* lowered to setcc, setcc, a 32-bit and, and a trap on NZ; NotEqual
\* (OrConditions) to two traps; every other condition to exactly one trap.
C25_TrapffFiresIffConditionHolds ==
  TrapffDone
    => /\ (label = TrapLabel) <=> TrapffRef
       /\ TrapffCC = "Equal" =>
            /\ Len(insts) >= 4
            /\ LET n == Len(insts)
               IN /\ insts[n - 3].op = "setcc" /\ insts[n - 2].op = "setcc"
                  /\ insts[n - 1] = Inst_alu_rmi_r(32, "And", RegMemImm_reg(insts[n - 3].dst),
                                                   insts[n - 2].dst)
                  /\ insts[n] = Inst_TrapIf("User", "NZ")
       /\ TrapffCC = "NotEqual" => Cardinality(TrapIfs) = 2
       /\ TrapffCC \notin {"Equal", "NotEqual"} => Cardinality(TrapIfs) = 1

-----------------------------------------------------------------------------
(* Claims about the variants of FcmpCondResult.                            *)

\* emit_fcmp has returned for the fcmp of the scenario.
FcmpReturned == ir.kind = "fcmp" /\ phase = "lowered"

\* C26: for every FloatCC, emit_fcmp called with FcmpSpec::Normal never
\* returns InvertedEqualOrConditions (the arms that are unreachable!() for
\* that variant are not reached); the variant is returned only for
\* FloatCC::Equal with FcmpSpec::InvertEqual.
C26_InvertedOnlyForInvertEqual ==
  FcmpReturned
    => /\ ir.spec = "Normal" => ret.kind \in {"Condition", "AndConditions", "OrConditions"}
       /\ ret.kind = "InvertedEqualOrConditions"
            => (ir.cc = "Equal" /\ ir.spec = "InvertEqual")

\* C26 witness: Equal under InvertEqual has been lowered and the result is
\* the inverted variant.
C26_Witness ==
  /\ FcmpReturned
  /\ ir.cc = "Equal" /\ ir.spec = "InvertEqual"
  /\ ret = FcmpCondResult("InvertedEqualOrConditions", "P", "NZ")

-----------------------------------------------------------------------------
(* Claims about brz / brnz of an fcmp.                                     *)

\* The group [brz v | brnz v, jump] with v = fcmp cc l, r has been lowered
\* and the emitted code has run to a label.
FcmpBranchDone == ir.kind = "branch" /\ ir.fam = "fcmp" /\ Halted

\* The IEEE predicate of the fcmp on its operands.
FcmpBranchRef == FloatCCHolds(ir.cc, ir.l.val[1], ir.r.val[1])

FloatCompares == {k \in 1 .. Len(insts) : insts[k].op = "xmm_cmp"}

\* The conditions emit_fcmp tests with its operands exchanged.
FlippedFloatCCs ==
  {"LessThan", "LessThanOrEqual", "UnorderedOrGreaterThan", "UnorderedOrGreaterThanOrEqual"}

\* C27: for a two-branch group whose conditional branch tests the result of
\* fcmp cc a, b, brnz goes to `taken` iff the IEEE predicate cc holds of a
\* and b and brz goes to `taken` iff it does not, for unordered, less, equal
\* and greater operands; brz hands emit_fcmp the inverse of cc, and the one
\* compare emitted has a and b exchanged exactly for the conditions emit_fcmp
\* reverses.
C27_FcmpBranchFollowsPredicate ==
  FcmpBranchDone
    => /\ label = (IF (ir.op0 = "Brnz") = FcmpBranchRef THEN ir.targets[1] ELSE ir.targets[2])
       /\ Cardinality(FloatCompares) = 1
       /\ \A k \in FloatCompares :
            IF BranchFloatCC \in FlippedFloatCCs
              THEN insts[k].src = RegMemImm_reg(1)
              ELSE insts[k].dst = 1

\* C27 witness: brz of `fcmp lt NaN, b`: the inverse condition is tested with
\* the operands exchanged, the compare was unordered and control is at taken.
C27_Witness ==
  /\ FcmpBranchDone
  /\ ir.op0 = "Brz" /\ ir.cc = "LessThan"
  /\ ir.l.val[1] = 0 /\ ir.r.val[1] # 0
  /\ BranchFloatCC \in FlippedFloatCCs
  /\ \E k \in FloatCompares : insts[k].src = RegMemImm_reg(1)
  /\ flags.pf
  /\ label = ir.targets[1]

-----------------------------------------------------------------------------
(* The component-model side (crates/wasmtime/src/component/func/typed.rs): *)
(* the canonical-ABI size and alignment of a type, the stores of a value,   *)
(* lower_list, and WasmList / WasmStr over a linear memory that only grows. *)
(* A usize is UsizeBits wide; the memory grows by pages of PageSize bytes.  *)

UsizeBits == 5

PageSize == 4

MaxPages == 4

\* Longest list handed to lower_list.
MaxListLen == 3

UsizeMod == Pow2(UsizeBits)

Usizes == 0 .. UsizeMod - 1

checked_mul(a, b) == IF a * b >= UsizeMod THEN None ELSE a * b

checked_add(a, b) == IF a + b >= UsizeMod THEN None ELSE a + b

Max(a, b) == IF a > b THEN a ELSE b

\* A type is its kind and the types it is built from.
Prim(k) == [k |-> k, ts |-> <<>>]

OptionOf(t) == [k |-> "option", ts |-> <<t>>]

ResultOf(t, e) == [k |-> "result", ts |-> <<t, e>>]

TupleOf(ts) == [k |-> "tuple", ts |-> ts]

\* mem::size_of of the primitive, which is also its ALIGN32.
PrimSize(k) ==
  CASE k \in {"u8", "s8", "bool"} -> 1
    [] k \in {"u16", "s16"} -> 2
    [] k \in {"u32", "s32", "f32", "char"} -> 4
    [] k \in {"u64", "s64", "f64"} -> 8

\* Round a up to the next multiple of align, a power of two:
\* (a + (align - 1)) & !(align - 1).
align_to(a, align) ==
  ((a + (align - 1)) % UsizeMod) - (((a + (align - 1)) % UsizeMod) % align)

RECURSIVE ALIGN32(_)
RECURSIVE TupleAlign(_, _)
RECURSIVE SIZE32(_)
RECURSIVE TupleSize(_, _)

\* The loop of the tuple's ALIGN32 over its fields.
TupleAlign(ts, align) ==
  IF ts = <<>> THEN align
  ELSE TupleAlign(Tail(ts), IF ALIGN32(Head(ts)) > align THEN ALIGN32(Head(ts)) ELSE align)

ALIGN32(t) ==
  CASE t.k = "option" -> ALIGN32(t.ts[1])
    [] t.k = "result" ->
         IF ALIGN32(t.ts[1]) > ALIGN32(t.ts[2]) THEN ALIGN32(t.ts[1]) ELSE ALIGN32(t.ts[2])
    [] t.k = "tuple" -> TupleAlign(t.ts, 1)
    [] OTHER -> PrimSize(t.k)

\* The loop of the tuple's SIZE32 over its fields.
TupleSize(ts, size) ==
  IF ts = <<>> THEN size
  ELSE TupleSize(Tail(ts), align_to(size, ALIGN32(Head(ts))) + SIZE32(Head(ts)))

SIZE32(t) ==
  CASE t.k = "option" -> align_to(1, ALIGN32(t.ts[1])) + SIZE32(t.ts[1])
    [] t.k = "result" ->
         align_to(1, ALIGN32(t))
           + (IF SIZE32(t.ts[1]) > SIZE32(t.ts[2]) THEN SIZE32(t.ts[1]) ELSE SIZE32(t.ts[2]))
    [] t.k = "tuple" -> TupleSize(t.ts, 0)
    [] OTHER -> PrimSize(t.k)

\* A value is the variant it is and the values it holds.
Val(k, vs) == [k |-> k, vs |-> vs]

RECURSIVE Values(_)
RECURSIVE TupleValues(_)

TupleValues(ts) ==
  IF ts = <<>> THEN {<<>>}
  ELSE {<<v>> \o vs : v \in Values(Head(ts)), vs \in TupleValues(Tail(ts))}

\* The values of a type, up to the bits of their primitives.
Values(t) ==
  CASE t.k = "option" -> {Val("None", <<>>)} \cup {Val("Some", <<v>>) : v \in Values(t.ts[1])}
    [] t.k = "result" ->
         {Val("Ok", <<v>>) : v \in Values(t.ts[1])}
           \cup {Val("Err", <<v>>) : v \in Values(t.ts[2])}
    [] t.k = "tuple" -> {Val("tuple", vs) : vs \in TupleValues(t.ts)}
    [] OTHER -> {Val("bits", <<>>)}

\* One call of Lower::store: the type stored, the offset it is handed and
\* the alignment its debug_assert! requires of the offset.
StoreCall(t, offset) == [ty |-> t.k, offset |-> offset, align |-> ALIGN32(t)]

RECURSIVE store(_, _, _)
RECURSIVE store_fields(_, _, _)

\* The stores of the fields of a tuple: next_field aligns the offset to the
\* field and moves it past the field.
store_fields(ts, vs, offset) ==
  IF ts = <<>> THEN <<>>
  ELSE store(Head(ts), Head(vs), align_to(offset, ALIGN32(Head(ts))))
         \o store_fields(Tail(ts), Tail(vs),
                         align_to(offset, ALIGN32(Head(ts))) + SIZE32(Head(ts)))

\* Lower::store of the value v of type t at offset: the calls of store it
\* makes, in order.
store(t, v, offset) ==
  <<StoreCall(t, offset)>> \o
    (CASE t.k = "option" /\ v.k = "Some" ->
            store(t.ts[1], v.vs[1], offset + align_to(1, ALIGN32(t.ts[1])))
       [] t.k = "result" /\ v.k = "Ok" ->
            store(t.ts[1], v.vs[1], offset + align_to(1, ALIGN32(t)))
       [] t.k = "result" /\ v.k = "Err" ->
            store(t.ts[2], v.vs[1], offset + align_to(1, ALIGN32(t)))
       [] t.k = "tuple" -> store_fields(t.ts, v.vs, offset)
       [] OTHER -> <<>>)

Misaligned(call) == call.offset % call.align # 0

\* The calls of store up to and including the first whose debug_assert!
\* fails; all of them when none fails.
RECURSIVE UntilAssert(_)
UntilAssert(calls) ==
  IF calls = <<>> THEN <<>>
  ELSE IF Misaligned(Head(calls)) THEN <<Head(calls)>>
  ELSE <<Head(calls)>> \o UntilAssert(Tail(calls))

\* MemoryMut::realloc(0, 0, align, size): a pointer aligned to align with
\* size bytes of memory behind it, the memory grown by whole pages to hold
\* them.
realloc(align, size) ==
  {[ptr |-> p,
    memory |-> Max(memory, PageSize * ((p + size + PageSize - 1) \div PageSize))] :
     p \in {q \in 0 .. 2 * PageSize : q % align = 0 /\ q + size < UsizeMod}}

Primitives == {Prim("u8"), Prim("u16"), Prim("u32"), Prim("u64"), Prim("bool"), Prim("f32")}

\* Fields of a nested type.
FieldTypes ==
  {Prim("u8"), Prim("u32"), OptionOf(Prim("u16")), ResultOf(Prim("u8"), Prim("u32")),
   TupleOf(<<Prim("u32"), Prim("u8")>>), TupleOf(<<>>)}

\* The element types of the lists: the primitives and the options, results
\* and tuples built from them, one level deep and two.
ElemTypes ==
  Primitives
    \cup {OptionOf(t) : t \in Primitives \cup FieldTypes}
    \cup {ResultOf(t, e) : t \in FieldTypes, e \in FieldTypes}
    \cup {TupleOf(<<t>>) : t \in FieldTypes}
    \cup {TupleOf(<<t, u>>) : t \in Primitives \cup FieldTypes, u \in Primitives \cup FieldTypes}
    \cup {TupleOf(<<t, u, w>>) : t \in {Prim("u8"), Prim("u32")},
                                 u \in {Prim("u8"), Prim("u16"), Prim("u64")},
                                 w \in {Prim("u8"), Prim("u32")}}

\* The lowering and the machine play no part.
NoLowering ==
  /\ insts = <<>>
  /\ next_vreg = 0
  /\ sunk = <<>>
  /\ regs = <<>>
  /\ flags = <<>>
  /\ mpc = 0
  /\ label = 0

\* lower_list is handed a slice of ir.len values of type ir.ty, in a build
\* with or without debug assertions.
InitLowerList ==
  /\ ir \in [kind : {"lower_list"}, ty : ElemTypes, len : 0 .. MaxListLen,
             debug_assertions : BOOLEAN]
  /\ memory = 0
  /\ list = <<>>
  /\ cur = 0
  /\ stored = <<>>
  /\ ret = "none"
  /\ phase = "start"
  /\ NoLowering

\* lower_list up to the loop: the size of the list is computed with
\* checked_mul and realloc hands back the pointer.
LowerListRealloc ==
  /\ phase = "start"
  /\ ir.kind = "lower_list"
  /\ IF checked_mul(ir.len, SIZE32(ir.ty)) = None
       THEN /\ ret' = "Err"
            /\ phase' = "failed"
            /\ UNCHANGED <<memory, list, cur>>
       ELSE \E r \in realloc(ALIGN32(ir.ty), checked_mul(ir.len, SIZE32(ir.ty))) :
              /\ memory' = r.memory
              /\ list' = [ptr |-> r.ptr, len |-> ir.len, stored |-> 0]
              /\ cur' = r.ptr
              /\ phase' = "storing"
              /\ ret' = ret
  /\ UNCHANGED <<ir, stored, machine_vars>>

\* One turn of the loop: item.store(mem, cur)?; cur += elem_size.  A failed
\* debug_assert! of a build with debug assertions is a panic.
LowerListStore ==
  /\ phase = "storing"
  /\ list.stored < list.len
  /\ \E v \in Values(ir.ty) :
       \E calls \in {store(ir.ty, v, cur)} :
         IF ir.debug_assertions /\ \E k \in 1 .. Len(calls) : Misaligned(calls[k])
           THEN /\ stored' = UntilAssert(calls)
                /\ phase' = "panicked"
                /\ UNCHANGED <<list, cur>>
           ELSE /\ stored' = calls
                /\ cur' = cur + SIZE32(ir.ty)
                /\ list' = [list EXCEPT !.stored = @ + 1]
                /\ phase' = phase
  /\ UNCHANGED <<ir, memory, ret, machine_vars>>

\* Ok((ptr, list.len())).
LowerListReturn ==
  /\ phase = "storing"
  /\ list.stored = list.len
  /\ ret' = <<list.ptr, list.len>>
  /\ phase' = "lowered"
  /\ UNCHANGED <<ir, memory, list, cur, stored, machine_vars>>

NextLowerList == LowerListRealloc \/ LowerListStore \/ LowerListReturn

SpecLowerList == InitLowerList /\ [][NextLowerList]_vars

\* C30: when a list is lowered by lower_list every element is stored at an
\* offset that is a multiple of the element type's ALIGN32, and within a
\* tuple element every field is stored at an offset aligned to that field's
\* ALIGN32, for every element type built from the primitives, Option, Result
\* and tuples, tuples whose last field is smaller than the tuple's alignment
\* included; no debug_assert! of a store fails.
C30_ElementsAndFieldsStoredAligned ==
  ir.kind = "lower_list"
    => /\ phase # "panicked"
       /\ \A k \in 1 .. Len(stored) : stored[k].offset % stored[k].align = 0

-----------------------------------------------------------------------------
(* WasmList and WasmStr: a pointer and a length checked against the linear *)
(* memory when the value is made, read later from a memory that has grown.  *)

\* WasmList::new without the check for overflow of len * SIZE32.
WasmList_new_wrapping(ptr, len, t, memory_len) ==
  IF checked_add(ptr, (len * SIZE32(t)) % UsizeMod) = None
       \/ checked_add(ptr, (len * SIZE32(t)) % UsizeMod) > memory_len
    THEN "Err"
  ELSE IF ptr % ALIGN32(t) # 0 THEN "Err"
  ELSE "Ok"

\* WasmList::new: Ok or the error it bails with.
WasmList_new(ptr, len, t, memory_len) ==
  IF checked_mul(len, SIZE32(t)) = None
       \/ checked_add(ptr, checked_mul(len, SIZE32(t))) = None
       \/ checked_add(ptr, checked_mul(len, SIZE32(t))) > memory_len
    THEN "Err"
  ELSE IF ptr % ALIGN32(t) # 0 THEN "Err"
  ELSE "Ok"

\* The byte length WasmStr::new computes for the string encoding.
WasmStr_byte_len(len, encoding) ==
  CASE encoding = "Utf8" -> len
    [] encoding = "Utf16" -> checked_mul(len, 2)
    [] encoding = "CompactUtf16" -> Panic

\* WasmStr::new.
WasmStr_new(ptr, len, encoding, memory_len) ==
  IF WasmStr_byte_len(len, encoding) = Panic THEN "panic"
  ELSE IF WasmStr_byte_len(len, encoding) = None
            \/ checked_add(ptr, WasmStr_byte_len(len, encoding)) = None
            \/ checked_add(ptr, WasmStr_byte_len(len, encoding)) > memory_len
    THEN "Err"
  ELSE "Ok"

\* What a call returned: Ok, Err, None, Some with the bytes from..to - 1 of
\* the memory it read, or a panic.
Returned(out, from, to) == [out |-> out, from |-> from, to |-> to]

\* &slice[start..][..n] of a slice of slice_len bytes: the bytes read, or
\* the panic of an index out of range.
Slice(start, n, slice_len) ==
  IF start > slice_len \/ n > slice_len - start THEN Returned("panic", 0, 0)
  ELSE Returned("Some", start, start + n)

\* WasmList::get_from_store: None, or the bytes of the element handed to
\* T::load.  An overflow of ptr + index * SIZE32 panics in a build with
\* overflow checks and wraps in one without.
get_from_store(l, index, memory_len, overflow_checks) ==
  IF index >= l.len THEN Returned("None", 0, 0)
  ELSE IF l.ptr + index * SIZE32(l.ty) >= UsizeMod /\ overflow_checks
    THEN Returned("panic", 0, 0)
  ELSE Slice((l.ptr + index * SIZE32(l.ty)) % UsizeMod, SIZE32(l.ty), memory_len)

\* The element types of the lists read back: one of every size and alignment.
LiftTypes ==
  {Prim("u8"), Prim("u16"), Prim("u32"), Prim("u64"), TupleOf(<<>>),
   TupleOf(<<Prim("u32"), Prim("u8")>>), OptionOf(Prim("u16")),
   ResultOf(Prim("u8"), Prim("u64"))}

\* The indexes get is tried with: around the ends of the list and of usize.
GetIndexes(l) ==
  {i \in Usizes : i <= 1 \/ (i + 1 >= l.len /\ i <= l.len + 1) \/ i + 1 >= UsizeMod}

InitWasmList ==
  /\ ir \in [kind : {"wasm_list"}, overflow_checks : BOOLEAN]
  /\ memory \in {n * PageSize : n \in 0 .. 2}
  /\ list = <<>>
  /\ cur = 0
  /\ stored = <<>>
  /\ ret = [call |-> "none", index |-> 0, val |-> Returned("none", 0, 0)]
  /\ phase = "start"
  /\ NoLowering

\* WasmList::<T>::new(ptr, len, memory): on Ok the list is kept, with the
\* length the memory had.
NewList ==
  /\ phase = "start"
  /\ ir.kind = "wasm_list"
  /\ \E ptr \in Usizes, len \in Usizes, t \in LiftTypes :
       \E r \in {WasmList_new(ptr, len, t, memory)} :
         /\ ret' = [call |-> "WasmList::new", index |-> 0, val |-> Returned(r, 0, 0)]
         /\ list' = IF r = "Ok"
                      THEN [kind |-> "list", ptr |-> ptr, len |-> len, ty |-> t,
                            size |-> SIZE32(t), memory |-> memory]
                      ELSE list
         /\ phase' = IF r = "Ok" THEN "live" ELSE phase
  /\ UNCHANGED <<ir, memory, cur, stored, machine_vars>>

\* WasmStr::new(ptr, len, memory) under the string encoding of the options.
NewStr ==
  /\ phase = "start"
  /\ ir.kind = "wasm_list"
  /\ \E ptr \in Usizes, len \in Usizes, encoding \in {"Utf8", "Utf16", "CompactUtf16"} :
       \E r \in {WasmStr_new(ptr, len, encoding, memory)} :
         /\ ret' = [call |-> "WasmStr::new", index |-> 0, val |-> Returned(r, 0, 0)]
         /\ list' = IF r = "Ok"
                      THEN [kind |-> "str", ptr |-> ptr, len |-> len, ty |-> Prim("u8"),
                            size |-> IF encoding = "Utf16" THEN 2 ELSE 1, memory |-> memory]
                      ELSE list
         /\ phase' = CASE r = "Ok" -> "live"
                       [] r = "panic" -> "panicked"
                       [] OTHER -> phase
  /\ UNCHANGED <<ir, memory, cur, stored, machine_vars>>

\* memory.grow: the linear memory gets one page longer; it never shrinks.
MemoryGrow ==
  /\ ir.kind = "wasm_list"
  /\ phase \in {"start", "live"}
  /\ memory + PageSize <= MaxPages * PageSize
  /\ memory' = memory + PageSize
  /\ UNCHANGED <<ir, list, cur, stored, ret, phase, machine_vars>>

\* WasmList::get(store, index).
GetElement ==
  /\ phase = "live"
  /\ list.kind = "list"
  /\ \E index \in GetIndexes(list) :
       \E r \in {get_from_store(list, index, memory, ir.overflow_checks)} :
         /\ ret' = [call |-> "WasmList::get", index |-> index, val |-> r]
         /\ phase' = IF r.out = "panic" THEN "panicked" ELSE phase
  /\ UNCHANGED <<ir, memory, list, cur, stored, machine_vars>>

NextWasmList == NewList \/ NewStr \/ MemoryGrow \/ GetElement

SpecWasmList == InitWasmList /\ [][NextWasmList]_vars

\* A list or a string has been made.
Made == ir.kind = "wasm_list" /\ list # <<>>

\* C29: WasmList::new and WasmStr::new succeed only if ptr + len * element
\* size, computed without overflow, is within the length the linear memory
\* has then (and, for a list, ptr is a multiple of the element alignment);
\* after that, however the memory has grown, WasmList::get returns None iff
\* index >= len and otherwise reads only bytes inside the memory, and never
\* panics.
C29_ListStaysInBounds ==
  /\ Made
       => /\ list.ptr + list.len * list.size <= list.memory
          /\ list.ptr + list.len * list.size < UsizeMod
          /\ list.memory <= memory
          /\ list.kind = "list" => list.ptr % ALIGN32(list.ty) = 0
  /\ (ir.kind = "wasm_list" /\ ret.call = "WasmList::get")
       => /\ ret.val.out \in {"None", "Some"}
          /\ ret.val.out = "None" <=> ret.index >= list.len
          /\ ret.val.out = "Some"
               => /\ ret.val.from = list.ptr + ret.index * list.size
                  /\ ret.val.to = ret.val.from + list.size
                  /\ ret.val.to <= memory

\* C29 witness: the last element of a list that ended at the end of the
\* memory when it was made has been read after the memory grew.
C29_Witness ==
  /\ Made
  /\ list.kind = "list" /\ list.len > 1 /\ list.size > 1
  /\ list.ptr + list.len * list.size = list.memory
  /\ memory > list.memory
  /\ ret.call = "WasmList::get" /\ ret.index = list.len - 1
  /\ ret.val.out = "Some" /\ ret.val.to = list.memory

====
